---------------------------- MODULE Spec2Model ----------------------------
(***************************************************************************)
(* A model of lexrpc: the schema validator (lexrpc/base.py), the server    *)
(* call dispatcher (lexrpc/server.py) and the transport client             *)
(* (lexrpc/client.py): its session handling and its subscriptions.         *)
(*                                                                         *)
(* Python values are tagged with the name of their Python type:            *)
(*   [t |-> "NoneType"], [t |-> "bool", v |-> TRUE], [t |-> "int", v |-> 3],*)
(*   [t |-> "str", v |-> <<"a","b">>]  (a sequence of graphemes),          *)
(*   [t |-> "bytes", v |-> <<...>>], [t |-> "list", v |-> <<...>>],        *)
(*   [t |-> "dict", v |-> [key |-> value]], [t |-> "tuple", v |-> <<...>>]. *)
(* Schemas (lexicon definitions) are TLA+ records in which an absent key   *)
(* is an absent field; `properties` is a sequence of <<name, schema>>      *)
(* pairs, in the order of the Python dict.                                 *)
(***************************************************************************)
EXTENDS Integers, Sequences, FiniteSets, TLC

----------------------------------------------------------------------------
(* Bounds of the model *)

\* the longest sequence a subscription handler emits / a peer sends
MaxItems == 2
\* the deepest nesting of Client.call frames the model follows
MaxDepth == 3

----------------------------------------------------------------------------
(* Python values *)

PyNone == [t |-> "NoneType"]
PyBool(b) == [t |-> "bool", v |-> b]
PyInt(i) == [t |-> "int", v |-> i]
PyStr(s) == [t |-> "str", v |-> s]
PyBytes(s) == [t |-> "bytes", v |-> s]
PyList(s) == [t |-> "list", v |-> s]
PyDict(d) == [t |-> "dict", v |-> d]
PyTuple(s) == [t |-> "tuple", v |-> s]
EmptyDict == PyDict(<<>>)

\* dict.get(key, default) on a TLA+ record that stands for a Python dict
Get(d, k, default) == IF k \in DOMAIN d THEN d[k] ELSE default

\* Python truthiness of a tagged value
Truthy(x) ==
    CASE x.t = "NoneType" -> FALSE
      [] x.t = "bool" -> x.v
      [] x.t = "int" -> x.v # 0
      [] x.t = "dict" -> DOMAIN x.v # {}
      [] OTHER -> Len(x.v) > 0

\* the ellipsis that truncation appends (one grapheme, three UTF-8 bytes)
Ellipsis == "U+2026"

\* bytes of one grapheme in UTF-8; the model's other graphemes are ASCII
GraphemeBytes(g) == IF g = Ellipsis THEN 3 ELSE 1

RECURSIVE Utf8Len(_)
\* len(val.encode('utf-8'))
Utf8Len(s) == IF s = <<>> THEN 0 ELSE GraphemeBytes(Head(s)) + Utf8Len(Tail(s))

\* a truncation that keeps n graphemes in front of the ellipsis
TruncateGraphemes_whole(s, n) == SubSeq(s, 1, n) \o <<Ellipsis>>

\* grapheme.slice(val, end=n - 1) + the ellipsis
TruncateGraphemes(s, n) == SubSeq(s, 1, n - 1) \o <<Ellipsis>>

\* outcome of a Python call: the exception raised ("none" when it returns)
\* and the value returned, or the argument as the call left it
Return(v) == [exc |-> "none", val |-> v]
Raise(e, v) == [exc |-> e, val |-> v]

----------------------------------------------------------------------------
(* base.py: the schema validator *)

\* lexicon field type -> the Python type its values must have
FIELD_TYPES ==
    ("null" :> "NoneType") @@ ("blob" :> "dict") @@ ("boolean" :> "bool") @@
    ("cid-link" :> "CID") @@ ("integer" :> "int") @@ ("string" :> "str") @@
    ("bytes" :> "bytes") @@ ("array" :> "list") @@ ("object" :> "dict")

\* Base._get_def: the definition, or NotImplementedError when there is none
\* (an empty definition is falsy and is not found either)
_get_def(self, id) ==
    LET lexicon == Get(self.defs, id, <<>>)
    IN  IF DOMAIN lexicon = {} THEN Raise("NotImplementedError", <<>>)
        ELSE Return(lexicon)

\* names of the declared properties, props.keys()
PropNames(props) == {props[i][1] : i \in DOMAIN props}

\* members of a Python list of strings
ListItems(l) == {l[i] : i \in DOMAIN l}

\* the part of a lexicon name before its fragment, for the names the model's
\* lexicons use
Stem(name) ==
    CASE name = "io.example.kitchenSink#subobject" -> "io.example.kitchenSink"
      [] name = "io.example.union#local" -> "io.example.union"
      [] name = "io.example.truncate#inner" -> "io.example.truncate"
      [] name = "io.example.subscribeUnion#foo" -> "io.example.subscribeUnion"
      [] name = "io.example.subscribeUnion#bar" -> "io.example.subscribeUnion"
      [] OTHER -> name

\* urllib.parse.urljoin(base, url) on lexicon names: nothing to join gives
\* base, a bare fragment replaces the fragment of base, any other name
\* replaces base
urljoin(base, url) ==
    IF url = "" THEN base
    ELSE IF url \in {"#local", "#subobject", "#inner", "#foo", "#bar"}
    THEN Stem(base) \o url
    ELSE url

\* _validate_schema.get_schema(lex_name): the fully qualified name and the
\* schema of the definition, the record schema for a record
get_schema(self, lexicon, lex_name) ==
    LET schema_name == urljoin(lexicon, lex_name)
        def == _get_def(self, schema_name)
        schema == IF Get(def.val, "type", "") = "record"
                  THEN Get(def.val, "record", <<>>) ELSE def.val
    IN  IF def.exc # "none" THEN def
        ELSE IF DOMAIN schema = {} /\ self.validate
        THEN Raise("ValidationError", <<>>)
        ELSE Return([lexicon |-> schema_name, schema |-> schema])

RECURSIVE _validate_schema(_, _, _, _, _)

\* a params schema that lets undeclared parameters through
ValidateParamsClosed_open(self, val, schema) ==
    IF Get(schema, "type", "") = "params" /\ val.t # "dict"
    THEN Raise("AttributeError", val)
    ELSE Return(val)

\* _validate_schema, "unknown parameters aren't allowed"
ValidateParamsClosed(self, val, schema) ==
    IF Get(schema, "type", "") = "params"
    THEN IF val.t # "dict" THEN Raise("AttributeError", val)
         ELSE IF (DOMAIN val.v) \ PropNames(Get(schema, "properties", <<>>)) # {}
                 /\ self.validate
              THEN Raise("ValidationError", val)
              ELSE Return(val)
    ELSE Return(val)

RECURSIVE ValidateProperties(_, _, _, _, _)
\* _validate_schema, the loop over props.items(), from the i-th property on;
\* a truncated string replaces val[prop_name] in place
ValidateProperties(self, val, lexicon, schema, i) ==
    LET props == Get(schema, "properties", <<>>)
        required == ListItems(Get(schema, "required", <<>>))
        nullable == ListItems(Get(schema, "nullable", <<>>))
    IN
    IF i > Len(props) THEN ValidateParamsClosed(self, val, schema)
    ELSE
    LET prop_name == props[i][1]
        prop_schema == props[i][2]
        prop_type == prop_schema.type
    IN
    IF val.t # "dict" THEN Raise("TypeError", val)
    ELSE IF prop_name \notin DOMAIN val.v
    THEN IF prop_name \in required /\ self.validate
         THEN Raise("ValidationError", val)
         ELSE ValidateProperties(self, val, lexicon, schema, i + 1)
    ELSE
    LET prop_val == val.v[prop_name]
        max_graphemes == Get(prop_schema, "maxGraphemes", 0)
    IN
    IF prop_val = PyNone
    THEN IF prop_type # "null" /\ prop_name \notin nullable /\ self.validate
         THEN Raise("ValidationError", val)
         ELSE ValidateProperties(self, val, lexicon, schema, i + 1)
    ELSE IF self.truncate /\ max_graphemes # 0 /\ prop_val.t # "str"
    THEN Raise("TypeError", val)
    ELSE
    LET new_val == IF self.truncate /\ max_graphemes # 0
                      /\ Len(prop_val.v) > max_graphemes
                   THEN PyStr(TruncateGraphemes(prop_val.v, max_graphemes))
                   ELSE prop_val
        is_ref == ~(self.truncate /\ max_graphemes # 0) /\ prop_type = "ref"
        g == get_schema(self, lexicon, prop_schema.ref)
    IN
    IF is_ref /\ g.exc # "none" THEN Raise(g.exc, val)
    ELSE IF is_ref /\ "type" \notin DOMAIN g.val.schema
    THEN Raise("KeyError", val)
    ELSE
    LET against == IF is_ref
                   THEN [type |-> g.val.schema.type, lexicon |-> g.val.lexicon,
                         schema |-> g.val.schema]
                   ELSE [type |-> prop_type, lexicon |-> lexicon,
                         schema |-> prop_schema]
        r == _validate_schema(self, new_val, against.type, against.lexicon,
                              against.schema)
        val2 == [val EXCEPT !.v[prop_name] = r.val]
    IN  IF r.exc # "none" THEN Raise(r.exc, val2)
        ELSE ValidateProperties(self, val2, lexicon, schema, i + 1)

\* _validate_schema, "props and not isinstance(val, dict)", then the loop
ValidateObject(self, val, lexicon, schema) ==
    LET props == Get(schema, "properties", <<>>)
    IN  IF Len(props) > 0 /\ val.t # "dict" /\ self.validate
        THEN Raise("ValidationError", val)
        ELSE ValidateProperties(self, val, lexicon, schema, 1)

RECURSIVE ValidateItems(_, _, _, _, _)
\* _validate_schema, "for item in val", from the i-th item on
ValidateItems(self, val, lexicon, schema, i) ==
    IF i > Len(val.v) THEN Return(val)
    ELSE
    LET r == _validate_schema(self, val.v[i], schema.items.type, lexicon,
                              schema.items)
        val2 == [val EXCEPT !.v[i] = r.val]
    IN  IF r.exc # "none" THEN Raise(r.exc, val2)
        ELSE ValidateItems(self, val2, lexicon, schema, i + 1)

\* _validate_schema, "if type_ == 'array'": the items, then the properties
ValidateArray(self, val, type_, lexicon, schema) ==
    IF type_ = "array" /\ val.t # "list" THEN Raise("TypeError", val)
    ELSE
    LET r == IF type_ = "array"
             THEN ValidateItems(self, val, lexicon, schema, 1)
             ELSE Return(val)
    IN  IF r.exc # "none" THEN r
        ELSE ValidateObject(self, r.val, lexicon, schema)

\* the discriminator of a union value: val['$type'] of a dict (None when
\* there is none), a string itself
InnerType(val) ==
    IF val.t = "dict" THEN Get(val.v, "$type", PyNone) ELSE val

\* the name a discriminator holds ("" for None and the empty string)
TypeName(inner_type) ==
    IF Truthy(inner_type) THEN inner_type.v[1] ELSE ""

\* a union that gives up on a discriminator without definition: the
\* NotImplementedError of get_schema is not caught
ValidateUnion_known_only(self, val, type_, lexicon, schema) ==
    LET is_union == type_ = "union"
        inner_type == InnerType(val)
        refs == {urljoin(lexicon, ref) :
                    ref \in ListItems(Get(schema, "refs", <<>>))}
        g == get_schema(self, lexicon, TypeName(inner_type))
    IN
    IF is_union /\ val.t \notin {"dict", "str"}
    THEN Raise(IF self.validate THEN "ValidationError"
               ELSE "UnboundLocalError", val)
    ELSE IF is_union /\ ~Truthy(inner_type) /\ self.validate
    THEN Raise("ValidationError", val)
    ELSE IF is_union /\ inner_type.t \notin {"str", "NoneType"}
    THEN Raise("TypeError", val)
    ELSE IF is_union /\ Get(schema, "closed", FALSE)
            /\ TypeName(inner_type) \notin refs /\ self.validate
    THEN Raise("ValidationError", val)
    ELSE IF is_union /\ g.exc # "none" THEN Raise(g.exc, val)
    ELSE
    LET against == IF is_union THEN g.val
                   ELSE [lexicon |-> lexicon, schema |-> schema]
    IN  ValidateArray(self, val, type_, against.lexicon, against.schema)

\* _validate_schema, "if type_ == 'union'": the discriminator must be
\* among the refs of a closed union; a discriminator without definition
\* validates, any other is validated against its definition
ValidateUnion(self, val, type_, lexicon, schema) ==
    LET is_union == type_ = "union"
        inner_type == InnerType(val)
        refs == {urljoin(lexicon, ref) :
                    ref \in ListItems(Get(schema, "refs", <<>>))}
        g == get_schema(self, lexicon, TypeName(inner_type))
    IN
    IF is_union /\ val.t \notin {"dict", "str"}
    THEN Raise(IF self.validate THEN "ValidationError"
               ELSE "UnboundLocalError", val)
    ELSE IF is_union /\ ~Truthy(inner_type) /\ self.validate
    THEN Raise("ValidationError", val)
    ELSE IF is_union /\ inner_type.t \notin {"str", "NoneType"}
    THEN Raise("TypeError", val)
    ELSE IF is_union /\ Get(schema, "closed", FALSE)
            /\ TypeName(inner_type) \notin refs /\ self.validate
    THEN Raise("ValidationError", val)
    ELSE IF is_union /\ g.exc = "NotImplementedError" THEN Return(val)
    ELSE IF is_union /\ g.exc # "none" THEN Raise(g.exc, val)
    ELSE
    LET against == IF is_union THEN g.val
                   ELSE [lexicon |-> lexicon, schema |-> schema]
    IN  ValidateArray(self, val, type_, against.lexicon, against.schema)

\* _validate_schema, "if type_ == 'ref'": a string or any other value
\* that is no dict fails, a dict goes on against the schema ref names
ValidateRef(self, val, type_, lexicon, schema) ==
    LET is_ref == type_ = "ref"
        g == get_schema(self, lexicon, schema.ref)
    IN  IF is_ref /\ "ref" \notin DOMAIN schema THEN Raise("KeyError", val)
        ELSE IF is_ref /\ val.t # "dict" /\ self.validate
        THEN Raise("ValidationError", val)
        ELSE IF is_ref /\ g.exc # "none" THEN Raise(g.exc, val)
        ELSE
        LET against == IF is_ref THEN g.val
                       ELSE [lexicon |-> lexicon, schema |-> schema]
        IN  ValidateUnion(self, val, type_, against.lexicon, against.schema)

\* _validate_schema, "schema.get('type') == 'token'": the value is the
\* name of the token, and the token is defined
ValidateToken(self, val, type_, lexicon, schema) ==
    IF Get(schema, "type", "") = "token" /\ self.validate
       /\ \/ val.t # "str"
          \/ val.v # <<lexicon>>
          \/ lexicon \notin DOMAIN self.defs
    THEN Raise("ValidationError", val)
    ELSE ValidateRef(self, val, type_, lexicon, schema)

\* _validate_schema, minimum and maximum; a bound of 0 is falsy
ValidateRange(self, val, type_, lexicon, schema) ==
    LET minimum == Get(schema, "minimum", 0)
        maximum == Get(schema, "maximum", 0)
        num == IF val.t = "bool" THEN (IF val.v THEN 1 ELSE 0) ELSE val.v
    IN
    IF (minimum # 0 \/ maximum # 0) /\ val.t \notin {"int", "bool"}
    THEN Raise("TypeError", val)
    ELSE IF minimum # 0 /\ num < minimum /\ self.validate
    THEN Raise("ValidationError", val)
    ELSE IF maximum # 0 /\ num > maximum /\ self.validate
    THEN Raise("ValidationError", val)
    ELSE ValidateToken(self, val, type_, lexicon, schema)

\* _validate_schema, minGraphemes and maxGraphemes of a string
ValidateGraphemes(self, val, type_, lexicon, schema) ==
    LET min_graphemes == Get(schema, "minGraphemes", 0)
        max_graphemes == Get(schema, "maxGraphemes", 0)
        counted == type_ = "string" /\ (min_graphemes # 0 \/ max_graphemes # 0)
    IN
    IF counted /\ val.t # "str" THEN Raise("TypeError", val)
    ELSE IF counted /\ self.validate
            /\ \/ (min_graphemes # 0 /\ Len(val.v) < min_graphemes)
               \/ (max_graphemes # 0 /\ Len(val.v) > max_graphemes)
    THEN Raise("ValidationError", val)
    ELSE ValidateRange(self, val, type_, lexicon, schema)

\* names of string formats, as the characters Python compares
Fmt_at_identifier ==
    <<"a", "t", "-", "i", "d", "e", "n", "t", "i", "f", "i", "e", "r">>
Fmt_at_uri == <<"a", "t", "-", "u", "r", "i">>
Fmt_cid == <<"c", "i", "d">>
Fmt_datetime == <<"d", "a", "t", "e", "t", "i", "m", "e">>
Fmt_did == <<"d", "i", "d">>
Fmt_nsid == <<"n", "s", "i", "d">>
Fmt_handle == <<"h", "a", "n", "d", "l", "e">>
Fmt_tid == <<"t", "i", "d">>
Fmt_record_key == <<"r", "e", "c", "o", "r", "d", "-", "k", "e", "y">>
Fmt_uri == <<"u", "r", "i">>
Fmt_language == <<"l", "a", "n", "g", "u", "a", "g", "e">>

\* Python's `a in b` on strings: a is a substring of b
IsSubstring(a, b) ==
    \E i \in 0..(Len(b) - Len(a)) : SubSeq(b, i + 1, i + Len(a)) = a

\* the strings the model checks against formats, and for each the checks
\* of _validate_string_format it satisfies (DID_RE, DOMAIN_RE, RKEY_RE,
\* LANG_RE, CID_RE, NSID_RE, TID_RE, AT_URI_RE, urlparse, the datetime
\* rules)
Conforming ==
    ("did:plc:foo" :> {"did", "at-identifier", "record-key", "uri"}) @@
    ("example.com" :> {"handle", "at-identifier", "record-key"}) @@
    ("en" :> {"language", "record-key"}) @@
    ("not valid" :> {})

\* Base._validate_string_format(val, format): TRUE when it returns, FALSE
\* when it raises ValidationError; the branches in the order of the code
_validate_string_format(val, format) ==
    LET ok(kind) == kind \in Conforming[val.v[1]]
    IN  IF val.v = <<>> THEN FALSE
        ELSE IF format = Fmt_at_identifier THEN ok("at-identifier")
        ELSE IF format = Fmt_at_uri THEN ok("at-uri")
        ELSE IF format = Fmt_cid THEN ok("cid")
        ELSE IF format = Fmt_datetime THEN ok("datetime")
        ELSE IF format = Fmt_did THEN ok("did")
        ELSE IF format = Fmt_nsid THEN ok("nsid")
        ELSE IF IsSubstring(format, Fmt_handle) THEN ok("handle")
        ELSE IF format = Fmt_tid THEN ok("tid")
        ELSE IF format = Fmt_record_key THEN ok("record-key")
        ELSE IF format = Fmt_uri THEN ok("uri")
        ELSE IF format = Fmt_language THEN ok("language")
        ELSE FALSE

\* _validate_schema, the format of a string; an empty format is falsy
ValidateFormat(self, val, type_, lexicon, schema) ==
    LET format == Get(schema, "format", <<>>)
    IN  IF type_ = "string" /\ format # <<>> /\ self.validate
           /\ ~_validate_string_format(val, format)
        THEN Raise("ValidationError", val)
        ELSE ValidateGraphemes(self, val, type_, lexicon, schema)

\* _validate_schema, minLength and maxLength of an array, bytes or string;
\* the length of a string is its length in UTF-8 bytes
ValidateLength(self, val, type_, lexicon, schema) ==
    LET min_length == Get(schema, "minLength", 0)
        max_length == Get(schema, "maxLength", 0)
        length == IF type_ = "string" THEN Utf8Len(val.v)
                  ELSE IF val.t = "dict" THEN Cardinality(DOMAIN val.v)
                  ELSE Len(val.v)
        measured == type_ \in {"array", "bytes", "string"}
    IN
    IF measured /\ type_ = "string" /\ val.t # "str"
    THEN Raise("AttributeError", val)
    ELSE IF measured /\ val.t \in {"NoneType", "bool", "int"}
    THEN Raise("TypeError", val)
    ELSE IF measured /\ self.validate
            /\ \/ (max_length # 0 /\ length > max_length)
               \/ (min_length # 0 /\ length < min_length)
    THEN Raise("ValidationError", val)
    ELSE ValidateFormat(self, val, type_, lexicon, schema)

\* _validate_schema, "type(val) != expected" for the types of FIELD_TYPES
ValidateFieldType(self, val, type_, lexicon, schema) ==
    IF type_ \in DOMAIN FIELD_TYPES /\ val.t # FIELD_TYPES[type_] /\ self.validate
    THEN Raise("ValidationError", val)
    ELSE ValidateLength(self, val, type_, lexicon, schema)

\* _validate_schema, "if type_ == 'unknown'": a dict with a $type goes on
\* against the definition it names, anything else validates
ValidateUnknown(self, val, type_, lexicon, schema) ==
    LET is_unknown == type_ = "unknown"
        g == get_schema(self, lexicon, TypeName(InnerType(val)))
    IN
    IF is_unknown /\ (val.t # "dict" \/ ~Truthy(InnerType(val)))
    THEN Return(val)
    ELSE IF is_unknown /\ InnerType(val).t # "str" THEN Raise("TypeError", val)
    ELSE IF is_unknown /\ g.exc # "none" THEN Raise(g.exc, val)
    ELSE
    LET against == IF is_unknown THEN g.val
                   ELSE [lexicon |-> lexicon, schema |-> schema]
    IN  ValidateFieldType(self, val, type_, against.lexicon, against.schema)

\* Python's == on the scalars of the model: a bool is the integer 0 or 1
PyEq(a, b) ==
    LET num(x) == IF x.t = "bool" THEN (IF x.v THEN 1 ELSE 0) ELSE x.v
    IN  IF a.t = b.t THEN a = b
        ELSE IF {a.t, b.t} = {"bool", "int"} THEN num(a) = num(b)
        ELSE FALSE

\* _validate_schema, "if enums := schema.get('enum')": an empty list is
\* falsy
ValidateEnum(self, val, type_, lexicon, schema) ==
    LET enums == Get(schema, "enum", <<>>)
    IN  IF enums # <<>> /\ self.validate
           /\ \A i \in DOMAIN enums : ~PyEq(val, enums[i])
        THEN Raise("ValidationError", val)
        ELSE ValidateUnknown(self, val, type_, lexicon, schema)

\* _validate_schema, "if const := schema.get('const')": a constant that
\* is False, 0 or '' is falsy
ValidateConst(self, val, type_, lexicon, schema) ==
    LET const == Get(schema, "const", PyNone)
    IN  IF Truthy(const) /\ ~PyEq(val, const) /\ self.validate
        THEN Raise("ValidationError", val)
        ELSE ValidateEnum(self, val, type_, lexicon, schema)

\* Base._validate_schema: const, enum, unknown, the Python type, lengths,
\* format, graphemes, range, token, ref, union, array items, properties
\* and the closed world of params, in the order of the code.
\* fail() raises only when self.validate is set; otherwise the walk goes on.
_validate_schema(self, val, type_, lexicon, schema) ==
    ValidateConst(self, val, type_, lexicon, schema)

\* a validate that returns what its docstring opens with: None when the
\* object validates
validate_returns_none(self, nsid, type, obj) ==
    LET def == _get_def(self, nsid)
        schema == IF type \in {"input", "output", "message"}
                  THEN Get(Get(def.val, type, <<>>), "schema", <<>>)
                  ELSE Get(def.val, type, <<>>)
        r == _validate_schema(self, obj, nsid, nsid, schema)
    IN  IF ~self.validate /\ ~self.truncate THEN Return(PyNone)
        ELSE IF def.exc # "none" THEN Raise(def.exc, obj)
        ELSE IF DOMAIN schema = {} THEN Return(PyNone)
        ELSE IF r.exc # "none" THEN r
        ELSE Return(PyNone)

\* Base.validate(nsid, type, obj): obj itself, as validation left it
validate(self, nsid, type, obj) ==
    IF ~self.validate /\ ~self.truncate THEN Return(obj)
    ELSE
    LET def == _get_def(self, nsid)
        base == Get(def.val, type, <<>>)
        encoding == Get(base, "encoding", "")
        schema == IF type \in {"input", "output", "message"}
                  THEN Get(base, "schema", <<>>) ELSE base
    IN  IF def.exc # "none" THEN Raise(def.exc, obj)
        ELSE IF encoding # "" /\ encoding # "application/json" THEN Return(obj)
        ELSE IF DOMAIN schema = {} THEN Return(obj)
        ELSE _validate_schema(self, obj, nsid, nsid, schema)

----------------------------------------------------------------------------
(* The lexicons loaded into the model's server *)

\* io.example.procedure as in tests/lexicons.py
ProcedureDef ==
    [type |-> "procedure",
     parameters |-> [type |-> "params",
                     properties |-> << <<"x", [type |-> "string"]>>,
                                       <<"z", [type |-> "boolean"]>> >>],
     input |-> [encoding |-> "application/json",
                schema |-> [type |-> "object", required |-> <<"foo">>,
                            properties |-> << <<"foo", [type |-> "string"]>>,
                                              <<"bar", [type |-> "integer"]>> >>]],
     output |-> [encoding |-> "application/json",
                 schema |-> [type |-> "object", required |-> <<"foo">>,
                             properties |-> << <<"foo", [type |-> "string"]>>,
                                               <<"bar", [type |-> "integer"]>> >>]]]

\* io.example.subscribe as in tests/lexicons.py, its message extended with
\* a string property that declares maxGraphemes
SubscribeDef ==
    [type |-> "subscription",
     parameters |-> [type |-> "params",
                     properties |-> << <<"start", [type |-> "integer"]>>,
                                       <<"end", [type |-> "integer"]>> >>],
     message |-> [schema |-> [type |-> "object",
                              properties |-> << <<"num", [type |-> "integer"]>>,
                                                <<"text", [type |-> "string",
                                                           maxGraphemes |-> 2]>> >>]]]

\* Base.defs of the server after construction
ServerDefs ==
    ("io.example.procedure" :> ProcedureDef) @@
    ("io.example.subscribe" :> SubscribeDef)

\* identifiers the model calls and registers: two with a definition, one
\* well-formed without a definition, one that is not an NSID
ServerNsids ==
    {"io.example.procedure", "io.example.subscribe", "io.example.undefined",
     "not an NSID"}

\* NSID_RE.match(nsid) on the model's identifiers
NsidMatches(nsid) == nsid # "not an NSID"

\* handlers an application may register
Handlers == {"h1", "h2", "h3"}

\* the handler the serving model binds to its methods
ServedHandlers == {"h1"}

\* keyword parameters of the model's calls
ServerParams ==
    {<<>>, [x |-> PyStr(<<"y">>)], [x |-> PyInt(3)], [start |-> PyInt(3)]}

\* input bodies and handler return values
ServerBodies ==
    {PyNone, PyDict([foo |-> PyStr(<<"x">>)]), PyDict([foo |-> PyInt(2)])}

\* payloads a subscription handler emits
Payloads ==
    {PyDict([num |-> PyInt(3)]), PyDict([num |-> PyStr(<<"x">>)]),
     PyDict([num |-> PyInt(4), text |-> PyStr(<<"a", "b", "c">>)])}

\* the header a subscription handler emits with every payload
Header == PyDict([op |-> PyInt(1)])

\* sequences of at most n elements of S
SeqsUpTo(S, n) == UNION {[1..k -> S] : k \in 0..n}

\* the subscription endpoints init_flask routes (the second is the one the
\* tests register), and the websocket connections that come in
SubscribeNsids == {"io.example.subscribe", "io.example.delayedSubscribe"}
Conns == {"c1", "c2", "c3"}

----------------------------------------------------------------------------
(* State *)

VARIABLES
    server,         \* Server: [validate, truncate], the constructor's flags
    _methods,       \* Server._methods: NSID -> handler
    first_handler,  \* history: NSID -> the first handler registered for it
    register_exc,   \* the exception the last register() raised, or "none"
    call,           \* the Server.call in progress
    invoked,        \* history: the handler invocations of this call
    result,         \* what Server.call returned or raised
    gen,            \* the generator a subscription call returned
    client,         \* Client: [validate, truncate, has_callback]
    session,        \* Client.session
    stack,          \* the Client.call frames that wait for a response
    requests,       \* history: the HTTP requests the client sent
    responses,      \* history: the HTTP responses the client received
    callbacks,      \* history: the arguments session_callback was called with
    outcome,        \* what the top-level Client.call returned or raised
    sub,            \* the generator Client._subscribe returned
    subscribers,    \* flask_server.subscribers: NSID -> list of Subscriber
    conns,          \* the websocket connections, each a thread in track_subscriber
    ws,             \* the websocket of the connection that handle() serves
    iter,           \* the TimeoutIterator of handle() and its producer thread
    loop,           \* handle(): its position, and what it sent
    request,        \* the HTTP request XrpcEndpoint.dispatch_request serves
    response,       \* the HTTP response to it
    lexicons,       \* the lexicons argument of Base.__init__
    base,           \* the Base object under construction: defs, or the error
    args,           \* the arguments of a Base.validate call, as passed
    obj,            \* the caller's object that validate got by reference
    returned        \* what Base.validate returned or raised

serverVars == <<server, _methods, first_handler, register_exc, call, invoked,
                result, gen>>
clientVars == <<client, session, stack, requests, responses, callbacks,
                outcome, sub>>
flaskVars == <<subscribers, conns, ws, iter, loop, request, response>>
baseVars == <<lexicons, base, args, obj, returned>>
restVars == <<flaskVars, baseVars>>
vars == <<serverVars, clientVars, restVars>>

\* the Base part of the server object
ServerSelf ==
    [defs |-> ServerDefs, validate |-> server.validate,
     truncate |-> server.truncate]

NoCall == [pc |-> "idle"]
NoResult == [exc |-> "pending"]
NoGen == [state |-> "none"]

\* Server.__init__: no method is bound, no call was taken
ServerFresh ==
    /\ _methods = <<>>
    /\ first_handler = <<>>
    /\ register_exc = "none"
    /\ call = NoCall
    /\ invoked = <<>>
    /\ result = NoResult
    /\ gen = NoGen

\* Client.__init__: nothing was sent, nothing is held but the session
ClientFresh ==
    /\ stack = <<>>
    /\ requests = <<>>
    /\ responses = <<>>
    /\ callbacks = <<>>
    /\ outcome = NoResult
    /\ sub = NoGen

NoConn == [pc |-> "idle"]
NoWs == [state |-> "none"]
NoIter == [state |-> "none"]
NoLoop == [pc |-> "idle"]
NoRequest == [state |-> "none"]
NoResponse == [state |-> "none"]
NoBase == [state |-> "none"]
NoArgs == [state |-> "none"]

\* flask_server: no subscriber is tracked, no connection and no request came in
FlaskFresh ==
    /\ subscribers = [n \in SubscribeNsids |-> <<>>]
    /\ conns = [c \in Conns |-> NoConn]
    /\ ws = NoWs
    /\ iter = NoIter
    /\ loop = NoLoop
    /\ request = NoRequest
    /\ response = NoResponse

\* no Base is under construction and no validate call was made
BaseFresh ==
    /\ lexicons = <<>>
    /\ base = NoBase
    /\ args = NoArgs
    /\ obj = PyNone
    /\ returned = NoResult

\* Server(lexicons) with the default flags, before any register or call
ServerIdle ==
    /\ server = [validate |-> TRUE, truncate |-> FALSE]
    /\ ServerFresh

\* Client() with the default flags and no tokens, before any call
ClientIdle ==
    /\ client = [validate |-> TRUE, truncate |-> FALSE, has_callback |-> FALSE]
    /\ session = EmptyDict
    /\ ClientFresh

\* Server(lexicons, validate=..., truncate=...); the client of the serving
\* model is the default one and stays as constructed
ServerInit ==
    /\ server \in [validate : BOOLEAN, truncate : BOOLEAN]
    /\ ServerFresh
    /\ client = [validate |-> TRUE, truncate |-> FALSE, has_callback |-> FALSE]
    /\ session = EmptyDict
    /\ ClientFresh
    /\ FlaskFresh
    /\ BaseFresh

----------------------------------------------------------------------------
(* server.py: Server *)

IsSubscription(nsid) == ServerDefs[nsid].type = "subscription"

\* the exceptions register() raises: the assert on the NSID carries no
\* message, fail() carries "<nsid> already registered with <existing>"
BadNsidError == "AssertionError"
AlreadyRegisteredError == "AssertionError: already registered"
IsAssertionError(e) == e \in {BadNsidError, AlreadyRegisteredError}

\* register() that binds the new handler over an existing one
register_overwrite(nsid, fn) ==
    /\ call.pc = "idle"
    /\ IF ~NsidMatches(nsid)
       THEN /\ register_exc' = BadNsidError
            /\ UNCHANGED <<_methods, first_handler>>
       ELSE /\ register_exc' = "none"
            /\ _methods' = (nsid :> fn) @@ _methods
            /\ first_handler' = IF nsid \in DOMAIN first_handler
                                THEN first_handler
                                ELSE (nsid :> fn) @@ first_handler
    /\ UNCHANGED <<restVars, clientVars, server, call, invoked, result, gen>>

\* Server.register(nsid, fn); the application registers its handlers before
\* the server takes its first call
register(nsid, fn) ==
    /\ call.pc = "idle"
    /\ IF ~NsidMatches(nsid)
       THEN /\ register_exc' = BadNsidError
            /\ UNCHANGED <<_methods, first_handler>>
       ELSE IF nsid \in DOMAIN _methods
       THEN /\ register_exc' = AlreadyRegisteredError
            /\ UNCHANGED <<_methods, first_handler>>
       ELSE /\ register_exc' = "none"
            /\ _methods' = (nsid :> fn) @@ _methods
            /\ first_handler' = IF nsid \in DOMAIN first_handler
                                THEN first_handler
                                ELSE (nsid :> fn) @@ first_handler
    /\ UNCHANGED <<restVars, clientVars, server, call, invoked, result, gen>>

\* Server.call, up to the lookup of the handler and of the method's type.
\* A call leaves nothing behind in the server, so one call is followed.
ServerCall(nsid, input, params) ==
    /\ call.pc = "idle"
    /\ invoked' = <<>>
    /\ gen' = NoGen
    /\ IF nsid \notin DOMAIN _methods
       THEN /\ call' = [pc |-> "failed", nsid |-> nsid]
            /\ result' = Raise("NotImplementedError", PyNone)
       ELSE IF nsid \notin DOMAIN ServerDefs
       THEN /\ call' = [pc |-> "failed", nsid |-> nsid]
            /\ result' = Raise("KeyError", PyNone)
       ELSE /\ call' = [pc |-> "received", nsid |-> nsid,
                        fn |-> _methods[nsid],
                        input0 |-> input, params0 |-> PyDict(params),
                        input |-> input, params |-> PyDict(params)]
            /\ result' = NoResult
    /\ UNCHANGED <<restVars, clientVars, server, _methods, first_handler, register_exc>>

\* Server.call: params = self.validate(nsid, 'parameters', params)
ServerValidateParams ==
    /\ call.pc = "received"
    /\ LET r == validate(ServerSelf, call.nsid, "parameters", call.params)
       IN  IF r.exc # "none"
           THEN /\ call' = [call EXCEPT !.pc = "failed"]
                /\ result' = Raise(r.exc, PyNone)
           ELSE /\ call' = [call EXCEPT !.pc = "params-validated",
                                        !.params = r.val]
                /\ UNCHANGED result
    /\ UNCHANGED <<restVars, clientVars, server, _methods, first_handler, register_exc, invoked, gen>>

\* Server.call that goes on to the handler whatever the input validation says
ServerValidateInput_unchecked ==
    /\ call.pc = "params-validated"
    /\ call' = [call EXCEPT !.pc = "input-validated"]
    /\ UNCHANGED <<restVars, clientVars, server, _methods, first_handler, register_exc, invoked,
                   result, gen>>

\* Server.call: input = self.validate(nsid, 'input', input)
ServerValidateInput ==
    /\ call.pc = "params-validated"
    /\ LET r == validate(ServerSelf, call.nsid, "input", call.input)
       IN  IF r.exc # "none"
           THEN /\ call' = [call EXCEPT !.pc = "failed"]
                /\ result' = Raise(r.exc, PyNone)
           ELSE /\ call' = [call EXCEPT !.pc = "input-validated",
                                        !.input = r.val]
                /\ UNCHANGED result
    /\ UNCHANGED <<restVars, clientVars, server, _methods, first_handler, register_exc, invoked, gen>>

\* what a handler of the method may return: a value, or for a subscription
\* the sequence of payloads it will emit
HandlerOutputs(nsid) ==
    IF IsSubscription(nsid) THEN SeqsUpTo(Payloads, MaxItems) ELSE ServerBodies

\* Server.call: args = [] if subscription else [input];
\* output = fn(*args, **params)
ServerInvoke ==
    /\ call.pc = "input-validated"
    /\ \E output \in HandlerOutputs(call.nsid) :
           call' = [call EXCEPT !.pc = "invoked"] @@ [output |-> output]
    /\ invoked' = Append(invoked,
                         [fn |-> call.fn, params |-> call.params,
                          args |-> IF IsSubscription(call.nsid) THEN <<>>
                                   ELSE <<call.input>>])
    /\ UNCHANGED <<restVars, clientVars, server, _methods, first_handler, register_exc, result, gen>>

\* Server.call: wrap the subscription's output in validator(), or
\* return self.validate(nsid, 'output', output)
ServerReturn ==
    /\ call.pc = "invoked"
    /\ IF IsSubscription(call.nsid)
       THEN /\ gen' = [state |-> "suspended", nsid |-> call.nsid,
                       output |-> call.output, yielded |-> <<>>]
            /\ result' = Return([t |-> "generator"])
            /\ call' = [call EXCEPT !.pc = "responded"]
       ELSE LET r == validate(ServerSelf, call.nsid, "output", call.output)
            IN  /\ result' = r
                /\ call' = [call EXCEPT !.pc = IF r.exc = "none"
                                               THEN "responded" ELSE "failed"]
                /\ UNCHANGED gen
    /\ UNCHANGED <<restVars, clientVars, server, _methods, first_handler, register_exc, invoked>>

\* a validator() that yields every payload without validating it
ServerNext_unvalidated ==
    /\ gen.state = "suspended"
    /\ IF gen.output = <<>>
       THEN gen' = [gen EXCEPT !.state = "done"]
       ELSE gen' = [gen EXCEPT !.output = Tail(gen.output),
                               !.yielded = Append(gen.yielded,
                                                  <<Header, Head(gen.output)>>)]
    /\ UNCHANGED <<restVars, clientVars, server, _methods, first_handler, register_exc, call,
                   invoked, result>>

\* next() on the generator of Server.call.validator
ServerNext ==
    /\ gen.state = "suspended"
    /\ IF gen.output = <<>>
       THEN gen' = [gen EXCEPT !.state = "done"]
       ELSE LET payload == Head(gen.output)
                r == validate(ServerSelf, gen.nsid, "message", payload)
            IN  IF r.exc # "none"
                THEN gen' = [gen EXCEPT !.state = "raised",
                                        !.output = Tail(gen.output)]
                            @@ [exc |-> r.exc]
                ELSE gen' = [gen EXCEPT !.output = Tail(gen.output),
                                        !.yielded = Append(gen.yielded,
                                                           <<Header, r.val>>)]
    /\ UNCHANGED <<restVars, clientVars, server, _methods, first_handler, register_exc, call,
                   invoked, result>>

ServerStep ==
    \/ \E nsid \in ServerNsids, fn \in ServedHandlers : register(nsid, fn)
    \/ \E nsid \in ServerNsids, input \in ServerBodies, params \in ServerParams :
           ServerCall(nsid, input, params)
    \/ ServerValidateParams
    \/ ServerValidateInput
    \/ ServerInvoke
    \/ ServerReturn
    \/ ServerNext

ServerSpec == ServerInit /\ [][ServerStep]_vars

\* the set-up of a server: any sequence of register() calls
RegisterStep == \E nsid \in ServerNsids, fn \in Handlers : register(nsid, fn)

RegisterSpec == ServerInit /\ [][RegisterStep]_vars

----------------------------------------------------------------------------
(* Properties of the server *)

\* the server's validator with validation switched on
StrictSelf == [ServerSelf EXCEPT !.validate = TRUE]

\* a call that found its handler and its definition
Resolved == "fn" \in DOMAIN call

ParamsPass == validate(ServerSelf, call.nsid, "parameters", call.params0).exc = "none"
InputPasses == validate(ServerSelf, call.nsid, "input", call.input0).exc = "none"

\* C1: in Server.call for a query or procedure the steps happen in the order
\* params validated, input validated, handler invoked, output validated,
\* returned: the handler is invoked at most once and never when the
\* validation of the parameters or of the input fails, and with validation
\* enabled the value returned passes validation against the output schema.
C1_ValidateInvokeValidate ==
    (Resolved /\ ~IsSubscription(call.nsid)) =>
        /\ Len(invoked) <= 1
        /\ call.pc \in {"received", "params-validated", "input-validated"}
               => (invoked = <<>> /\ result = NoResult)
        /\ call.pc \in {"params-validated", "input-validated"} => ParamsPass
        /\ call.pc = "input-validated" => InputPasses
        /\ invoked # <<>> => (ParamsPass /\ InputPasses)
        /\ (~ParamsPass \/ ~InputPasses)
               => (invoked = <<>> /\ result.exc # "none")
        /\ call.pc = "invoked" => (Len(invoked) = 1 /\ result = NoResult)
        /\ call.pc = "responded"
               => /\ Len(invoked) = 1
                  /\ result.exc = "none"
                  /\ server.validate =>
                         validate(StrictSelf, call.nsid, "output",
                                  result.val).exc = "none"
        /\ (call.pc = "failed" /\ invoked # <<>>) => result.exc # "none"

\* C1: a procedure call with validation on has run its handler and returned
C1_Witness ==
    /\ Resolved
    /\ call.nsid = "io.example.procedure"
    /\ call.pc = "responded"
    /\ server.validate
    /\ Len(invoked) = 1
    /\ result.val = PyDict([foo |-> PyStr(<<"x">>)])

\* C7: Server.call on an identifier that has no definition in the registry
\* or has no handler bound fails with NotImplementedError, never with
\* another error, and invokes no handler.
C7_NotFound ==
    (call.pc # "idle"
     /\ (call.nsid \notin DOMAIN ServerDefs \/ call.nsid \notin DOMAIN _methods))
        => /\ call.pc = "failed"
           /\ result.exc = "NotImplementedError"
           /\ invoked = <<>>

\* C8: registering a handler for an identifier that already has a handler
\* fails with AssertionError and leaves the binding unchanged, so after any
\* sequence of register operations each identifier is bound to the first
\* handler registered for it.
C8_FirstRegistrationWins ==
    [][ /\ \A n \in DOMAIN _methods :
               n \in DOMAIN _methods' /\ _methods'[n] = _methods[n]
        /\ \A n \in DOMAIN first_handler' :
               n \in DOMAIN _methods' /\ _methods'[n] = first_handler'[n]
        /\ (call.pc = "idle" /\ call'.pc = "idle" /\ _methods' = _methods)
               => IsAssertionError(register_exc')
        /\ register_exc' = AlreadyRegisteredError => _methods' = _methods
      ]_vars

\* C8: a register() for a bound identifier has been refused
C8_Witness ==
    /\ register_exc = AlreadyRegisteredError
    /\ "io.example.procedure" \in DOMAIN _methods

\* the payloads the handler of the subscription call emits
Emitted == call.output

\* validation with the server's flags rejects the payload
PayloadInvalid(p) ==
    validate(ServerSelf, gen.nsid, "message", p).exc = "ValidationError"

\* the laziness and the order of the sequence a subscription call returns:
\* Same(y, p) says that y is what is yielded for the emitted payload p
LazySequence(Same(_, _)) ==
    gen.state # "none" =>
        LET k == Len(gen.yielded)
            consumed == Len(Emitted) - Len(gen.output)
        IN  /\ result.exc = "none"
            /\ consumed = k + (IF gen.state = "raised" THEN 1 ELSE 0)
            /\ \A i \in 1..k :
                   /\ gen.yielded[i][1] = Header
                   /\ Same(gen.yielded[i][2], Emitted[i])
                   /\ ~PayloadInvalid(Emitted[i])
            /\ gen.state = "raised"
                   => (PayloadInvalid(Emitted[k + 1])
                       /\ gen.exc = "ValidationError")
            /\ gen.state = "done" => k = Len(Emitted)

ShortenedIf(truncate, p) ==
    IF truncate /\ "text" \in DOMAIN p.v /\ Len(p.v.text.v) > 2
    THEN [p EXCEPT !.v.text = PyStr(<<p.v.text.v[1], Ellipsis>>)]
    ELSE p

Shortened(p) == ShortenedIf(server.truncate, p)

----------------------------------------------------------------------------
(* client.py: Client, queries and procedures *)

LOGIN_NSID == "com.atproto.server.createSession"
REFRESH_NSID == "com.atproto.server.refreshSession"
TOKEN_ERRORS ==
    {"AccountNotFound", "AuthenticationRequired", "ExpiredToken",
     "InvalidToken", "TokenRequired"}

\* the output of the login and of the refresh method: a session, which
\* carries at least an access and a refresh credential
SessionOutput ==
    [encoding |-> "application/json",
     schema |-> [type |-> "object", required |-> <<"accessJwt", "refreshJwt">>,
                 properties |-> << <<"accessJwt", [type |-> "string"]>>,
                                   <<"refreshJwt", [type |-> "string"]>>,
                                   <<"did", [type |-> "string"]>> >>]]

\* the output of the model's other methods
DidOutput ==
    [encoding |-> "application/json",
     schema |-> [type |-> "object", required |-> <<"did">>,
                 properties |-> << <<"did", [type |-> "string"]>> >>]]

\* Base.defs of the client: the methods of the bundled lexicons that the
\* model calls, with their type and their output, and the subscription of
\* tests/lexicons.py
ClientDefs ==
    (LOGIN_NSID :> [type |-> "procedure", output |-> SessionOutput]) @@
    (REFRESH_NSID :> [type |-> "procedure", output |-> SessionOutput]) @@
    ("com.atproto.server.describeServer" :>
         [type |-> "query", output |-> DidOutput]) @@
    ("com.atproto.identity.resolveHandle" :>
         [type |-> "query", output |-> DidOutput]) @@
    ("com.atproto.identity.signPlcOperation" :>
         [type |-> "procedure", output |-> DidOutput]) @@
    ("io.example.subscribe" :> SubscribeDef)

\* the queries and procedures of the client
ClientNsids == {nsid \in DOMAIN ClientDefs :
                    ClientDefs[nsid].type # "subscription"}

\* nsid.startswith('com.atproto.identity')
StartsWithIdentity(nsid) ==
    nsid \in {"com.atproto.identity.resolveHandle",
              "com.atproto.identity.signPlcOperation"}

\* the Base part of the client object
ClientSelf ==
    [defs |-> ClientDefs, validate |-> client.validate,
     truncate |-> client.truncate]

\* credentials: opaque strings
OldAccess == PyStr(<<"A1">>)
OldRefresh == PyStr(<<"R1">>)
NewAccess == PyStr(<<"A2">>)
NewRefresh == PyStr(<<"R2">>)
Did == PyStr(<<"did:x">>)

\* Client(access_token=..., refresh_token=...): self.session
HeldSession == PyDict([accessJwt |-> OldAccess, refreshJwt |-> OldRefresh])

\* JSON bodies and a body that is not JSON
NewSession ==
    PyDict([accessJwt |-> NewAccess, refreshJwt |-> NewRefresh, did |-> Did])
BlankSession ==
    PyDict([accessJwt |-> PyStr(<<>>), refreshJwt |-> NewRefresh, did |-> Did])
ExpiredToken == PyDict([error |-> PyStr(<<"ExpiredToken">>)])
InvalidRequest == PyDict([error |-> PyStr(<<"InvalidRequest">>)])
NotJson == PyBytes(<<"<html>">>)

\* the responses a server may give: resp.ok and the body; as in the tests'
\* response(), the Content-Type is application/json when the body is JSON
Responses ==
    [ok : {TRUE}, body : {NewSession, BlankSession, NotJson}] \cup
    [ok : {FALSE}, body : {ExpiredToken, InvalidRequest, NotJson}]

IsJson(resp) == resp.body.t = "dict"

\* Client(...), with or without tokens and session_callback, and without
\* an auth object in requests_kwargs
ClientInit ==
    /\ client \in [validate : BOOLEAN, truncate : BOOLEAN,
                   has_callback : BOOLEAN]
    /\ session \in {EmptyDict, HeldSession}
    /\ ClientFresh
    /\ server = [validate |-> TRUE, truncate |-> FALSE]
    /\ ServerFresh
    /\ FlaskFresh
    /\ BaseFresh

\* Client.call, "auth": the token of the session that goes with the method
SessionToken(nsid, sess) ==
    IF nsid = REFRESH_NSID THEN Get(sess.v, "refreshJwt", PyNone)
    ELSE Get(sess.v, "accessJwt", PyNone)

\* Client.call, the Authorization of the request: headers is the credential
\* in the headers argument (PyNone when it has none), which the session's
\* token overrides when it is truthy
Authorization(nsid, headers, sess) ==
    LET token == SessionToken(nsid, sess)
    IN  IF Truthy(token) THEN token ELSE headers

\* the request Client.call sends, with the session held when it is sent
Request(nsid, headers, sess) ==
    [nsid |-> nsid, authorization |-> Authorization(nsid, headers, sess),
     held |-> sess]

\* the Client.call frame that waits for the response to its request; it
\* keeps the merged headers for the retry
Frame(nsid, headers, sess) ==
    [nsid |-> nsid, headers |-> Authorization(nsid, headers, sess),
     pc |-> "sent"]

\* Client.call, "token expired, try to refresh it": the condition on the
\* output of a failed response and on the method
ShouldRefresh(nsid, output) ==
    /\ Truthy(output)
    /\ output.t = "dict"
    /\ "error" \in DOMAIN output.v
    /\ output.v.error.t = "str"
    /\ Len(output.v.error.v) = 1
    /\ output.v.error.v[1] \in TOKEN_ERRORS
    /\ ~(ClientDefs[nsid].type = "procedure" /\ StartsWithIdentity(nsid))

\* Client.call(nsid) by the application, up to the HTTP request; the model
\* follows one top-level call of a client
ClientCall(nsid) ==
    /\ stack = <<>>
    /\ requests = <<>>
    /\ outcome = NoResult
    /\ sub = NoGen
    /\ stack' = <<Frame(nsid, PyNone, session)>>
    /\ requests' = <<Request(nsid, PyNone, session)>>
    /\ UNCHANGED <<restVars, serverVars, client, session, responses, callbacks, outcome,
                   sub>>

\* Client.call from the response of the request of the innermost frame on:
\* the session of a login or refresh, the refresh and the retry after a token
\* error, raise_for_status, the validation of the output, the return
Respond(resp) ==
    /\ stack # <<>>
    /\ LET n == Len(stack)
           nsid == stack[n].nsid
           output == resp.body
           is_auth == nsid \in {LOGIN_NSID, REFRESH_NSID}
           \* output.get("did") of a body that is no dict
           crash == is_auth /\ resp.ok /\ output.t # "dict"
           stored == IF resp.ok THEN output ELSE EmptyDict
           refresh == ~is_auth /\ ~resp.ok /\ ShouldRefresh(nsid, output)
           checked == validate(ClientSelf, nsid, "output", output)
           r == IF crash THEN Raise("AttributeError", PyNone)
                ELSE IF ~resp.ok THEN Raise("HTTPError", PyNone)
                ELSE IF checked.exc # "none" THEN Raise(checked.exc, PyNone)
                ELSE IF ~IsJson(resp)
                THEN Return([t |-> "Response", v |-> output])
                ELSE Return(checked.val)
           session1 == IF is_auth /\ ~crash THEN stored ELSE session
       IN  /\ responses' = Append(responses, resp)
           /\ session' = session1
           /\ callbacks' = IF is_auth /\ ~crash /\ client.has_callback
                           THEN Append(callbacks, stored) ELSE callbacks
           /\ IF refresh
              THEN \* self.call(REFRESH_NSID)
                   /\ n < MaxDepth
                   /\ stack' = Append([stack EXCEPT ![n].pc = "refreshing"],
                                      Frame(REFRESH_NSID, PyNone, session))
                   /\ requests' = Append(requests,
                                         Request(REFRESH_NSID, PyNone, session))
                   /\ UNCHANGED outcome
              ELSE IF n > 1 /\ stack[n - 1].pc = "refreshing" /\ r.exc = "none"
              THEN \* return self.call(nsid, input=input, headers=headers)
                   LET caller == stack[n - 1]
                   IN  /\ stack' = Append([SubSeq(stack, 1, n - 1)
                                             EXCEPT ![n - 1].pc = "retrying"],
                                          Frame(caller.nsid, caller.headers,
                                                session1))
                       /\ requests' = Append(requests,
                                             Request(caller.nsid, caller.headers,
                                                     session1))
                       /\ UNCHANGED outcome
              ELSE \* the return value or the exception reaches the application
                   /\ stack' = <<>>
                   /\ outcome' = r
                   /\ UNCHANGED requests
    /\ UNCHANGED <<restVars, serverVars, client, sub>>

----------------------------------------------------------------------------
(* client.py: Client, subscriptions *)

\* the frames a peer sends: the DAG-CBOR encodings of a header and a
\* payload, one after the other
Frames == {PyBytes(<<Header, payload>>) : payload \in Payloads}

\* libipld.decode_dag_cbor_multi(msg): the objects encoded in the frame
decode_dag_cbor_multi(msg) == msg.v

\* Client.call(nsid, decode=..., **params) of a subscription: the parameters
\* and the input are validated, the generator of _subscribe is returned
Subscribe(nsid, decode, params) ==
    /\ stack = <<>>
    /\ requests = <<>>
    /\ outcome = NoResult
    /\ sub = NoGen
    /\ LET p == validate(ClientSelf, nsid, "parameters", PyDict(params))
           i == validate(ClientSelf, nsid, "input", PyNone)
       IN  IF p.exc # "none"
           THEN outcome' = Raise(p.exc, PyNone) /\ UNCHANGED sub
           ELSE IF i.exc # "none"
           THEN outcome' = Raise(i.exc, PyNone) /\ UNCHANGED sub
           ELSE /\ outcome' = Return([t |-> "generator"])
                /\ sub' = [state |-> "suspended", nsid |-> nsid,
                           decode |-> decode, closed |-> FALSE,
                           frames |-> <<>>, yielded |-> <<>>]
    /\ UNCHANGED <<restVars, serverVars, client, session, stack, requests, responses,
                   callbacks>>

\* next() on the generator of _subscribe when ws.receive() returns msg
Receive(msg) ==
    /\ sub.state = "suspended"
    /\ Len(sub.frames) < MaxItems
    /\ IF sub.decode
       THEN LET objects == decode_dag_cbor_multi(msg)
                header == objects[1]
                payload == validate(ClientSelf, sub.nsid, "message", objects[2])
            IN  IF payload.exc # "none"
                THEN sub' = [sub EXCEPT !.state = "raised",
                                        !.frames = Append(sub.frames, msg)]
                            @@ [exc |-> payload.exc]
                ELSE sub' = [sub EXCEPT !.frames = Append(sub.frames, msg),
                                        !.yielded =
                                            Append(sub.yielded,
                                                   PyTuple(<<header,
                                                             payload.val>>))]
       ELSE sub' = [sub EXCEPT !.frames = Append(sub.frames, msg),
                               !.yielded = Append(sub.yielded, msg)]
    /\ UNCHANGED <<restVars, serverVars, client, session, stack, requests, responses,
                   callbacks, outcome>>

\* a generator that lets ConnectionClosed out to its consumer
Close_raising ==
    /\ sub.state = "suspended"
    /\ sub' = [sub EXCEPT !.state = "raised", !.closed = TRUE]
              @@ [exc |-> "ConnectionClosed"]
    /\ UNCHANGED <<restVars, serverVars, client, session, stack, requests, responses,
                   callbacks, outcome>>

\* next() on the generator of _subscribe when ws.receive() raises
\* ConnectionClosed, after a normal or an abnormal close: the generator
\* catches it and returns
Close ==
    /\ sub.state = "suspended"
    /\ sub' = [sub EXCEPT !.state = "done", !.closed = TRUE]
    /\ UNCHANGED <<restVars, serverVars, client, session, stack, requests, responses,
                   callbacks, outcome>>

\* keyword parameters of the model's subscriptions
SubscribeParams == {<<>>, [start |-> PyInt(3)], [start |-> PyStr(<<"x">>)]}

ClientStep ==
    \/ \E nsid \in ClientNsids : ClientCall(nsid)
    \/ \E resp \in Responses : Respond(resp)
    \/ \E decode \in BOOLEAN, params \in SubscribeParams :
           Subscribe("io.example.subscribe", decode, params)
    \/ \E msg \in Frames : Receive(msg)
    \/ Close

ClientSpec == ClientInit /\ [][ClientStep]_vars

----------------------------------------------------------------------------
(* Properties of the client's session handling *)

IsAuthNsid(nsid) == nsid \in {LOGIN_NSID, REFRESH_NSID}

\* the method of the top-level call
TopNsid == requests[1].nsid

\* the requests sent so far for a method
RequestsFor(nsid) == {i \in DOMAIN requests : requests[i].nsid = nsid}

\* the i-th response is a failure with a token error
IsTokenError(i) ==
    /\ ~responses[i].ok
    /\ responses[i].body.t = "dict"
    /\ "error" \in DOMAIN responses[i].body.v
    /\ responses[i].body.v.error.v[1] \in TOKEN_ERRORS

\* a com.atproto.identity procedure
IsIdentityProcedure(nsid) ==
    ClientDefs[nsid].type = "procedure" /\ StartsWithIdentity(nsid)

\* what the caller gets for a successful response: its JSON output, or the
\* response itself
Delivered(resp) ==
    IF IsJson(resp) THEN resp.body ELSE [t |-> "Response", v |-> resp.body]

\* C2: for a top-level call of a method other than login and refresh the
\* client sends at most one refresh request and at most two requests for the
\* method itself, and a token error in response to the retry is raised to
\* the caller instead of starting another refresh.
C2_RefreshAtMostOnce ==
    (requests # <<>> /\ ~IsAuthNsid(TopNsid)) =>
        /\ Cardinality(RequestsFor(REFRESH_NSID)) <= 1
        /\ Cardinality(RequestsFor(TopNsid)) <= 2
        /\ (Len(responses) >= 3 /\ IsTokenError(3))
               => (stack = <<>> /\ outcome.exc = "HTTPError")

\* C3: a client that holds a session gets a token error, then a successful
\* refresh response, then a success on the retry: the session is the output
\* of the refresh, the retry carries the access credential of that output
\* and not the old one, and the caller gets the output of the retry.
C3_RefreshThenRetry ==
    (/\ Len(responses) >= 3
     /\ ~IsAuthNsid(TopNsid)
     /\ requests[1].held = HeldSession
     /\ IsTokenError(1)
     /\ responses[2].ok
     /\ responses[3].ok
     /\ outcome.exc = "none")
        => /\ Len(requests) = 3
           /\ requests[2].nsid = REFRESH_NSID
           /\ requests[3].nsid = TopNsid
           /\ session = responses[2].body
           /\ requests[3].authorization
                  = Get(responses[2].body.v, "accessJwt", PyNone)
           /\ requests[3].authorization # OldAccess
           /\ outcome.val = Delivered(responses[3])

\* C4: a response to a login or refresh request, sent by the application or
\* as the automatic refresh, leaves the session equal to the decoded output
\* when the response is successful and empty when it is not, and the
\* session callback, when there is one, has been called with that value.
C4_SessionOverwritten ==
    [][ (Len(responses') = Len(responses) + 1
         /\ IsAuthNsid(stack[Len(stack)].nsid))
            => LET resp == responses'[Len(responses')]
                   expected == IF resp.ok THEN resp.body ELSE EmptyDict
               IN  /\ session' = expected
                   /\ client.has_callback
                          => callbacks' = Append(callbacks, expected)
      ]_vars

\* C5: for a call that is not login or refresh, a refresh request is sent
\* only after a failed response with a token error, while a session is held,
\* and when the method is no com.atproto.identity procedure; after any other
\* failed response one request was made, the session and the callback are
\* untouched and the failure is raised.
C5_RefreshOnlyWhenHeld ==
    (requests # <<>> /\ ~IsAuthNsid(TopNsid)) =>
        /\ \A i \in RequestsFor(REFRESH_NSID) :
               /\ i > 1
               /\ IsTokenError(i - 1)
               /\ requests[i - 1].held # EmptyDict
               /\ ~IsIdentityProcedure(requests[i - 1].nsid)
        /\ (/\ responses # <<>>
            /\ ~responses[1].ok
            /\ ~(/\ IsTokenError(1)
                 /\ requests[1].held # EmptyDict
                 /\ ~IsIdentityProcedure(TopNsid)))
               => /\ Len(requests) = 1
                  /\ session = requests[1].held
                  /\ callbacks = <<>>
                  /\ outcome.exc = "HTTPError"

\* the credential of a session, PyNone when the session holds none
Credential(sess, key) ==
    LET token == Get(sess.v, key, PyNone)
    IN  IF Truthy(token) THEN token ELSE PyNone

\* C6: every request carries the refresh credential of the session when the
\* method is the refresh method, and otherwise the access credential the
\* session holds when the request is sent, or no Authorization header when
\* the session holds none; the retry is no exception.
C6_BearerFromSession ==
    \A i \in DOMAIN requests :
        requests[i].authorization =
            Credential(requests[i].held,
                       IF requests[i].nsid = REFRESH_NSID THEN "refreshJwt"
                       ELSE "accessJwt")

----------------------------------------------------------------------------
(* Properties of the client's subscriptions *)

\* validation with the client's flags rejects the payload of the frame
FrameInvalid(msg) ==
    validate(ClientSelf, sub.nsid, "message", msg.v[2]).exc = "ValidationError"

----------------------------------------------------------------------------
(* flask_server.py: subscription.track_subscriber *)

\* what a connection's request carries: the X-Forwarded-For header as the
\* list of its comma separated elements (empty: no header), the peer
\* address and the User-Agent
Sources ==
    {[x_forwarded_for |-> <<>>, remote_addr |-> "1.2.3.4",
      user_agent |-> "first"],
     [x_forwarded_for |-> <<"5.6.7.8", "9.9.9.9">>, remote_addr |-> "0.0.0.0",
      user_agent |-> "second"],
     [x_forwarded_for |-> <<"1.2.3.4">>, remote_addr |-> "0.0.0.0",
      user_agent |-> "first"]}

\* track_subscriber: the observed address of the request
ObservedIp(src) ==
    IF src.x_forwarded_for # <<>> THEN src.x_forwarded_for[1]
    ELSE src.remote_addr

\* the Subscriber tuple track_subscriber builds (args and start left out)
Subscriber(src) == [ip |-> ObservedIp(src), user_agent |-> src.user_agent]

\* list.remove(x): the list without the first element equal to x
RECURSIVE ListRemove(_, _)
ListRemove(l, x) ==
    IF l = <<>> THEN <<>>
    ELSE IF Head(l) = x THEN Tail(l)
    ELSE <<Head(l)>> \o ListRemove(Tail(l), x)

\* the ways handle() is left: it returns (the stream ended, the peer was
\* seen disconnected, a send failed) or it raises (decode_params, the call,
\* the handler or the validation of a payload raised)
Exits == {"return", "raise"}

\* the connections that hold, or are about to lose, their entry
Tracked == {"handle", "finally"}

\* a connection comes in: track_subscriber finds the observed address and
\* starts the loop over subscribers[nsid]
Connect(c, nsid, src) ==
    /\ conns[c] = NoConn
    /\ conns' = [conns EXCEPT ![c] =
                    [pc |-> "check", nsid |-> nsid, src |-> src, i |-> 0,
                     exit |-> "none"]]
    /\ UNCHANGED <<subscribers, ws, iter, loop, request, response>>
    /\ UNCHANGED <<serverVars, clientVars, baseVars>>

\* one round of "for client in subscribers[nsid]": the list iterator reads
\* the element at its index in the list as it is now
CheckNext(c) ==
    /\ conns[c].pc = "check"
    /\ LET l == subscribers[conns[c].nsid]
           i == conns[c].i
       IN  conns' = [conns EXCEPT ![c] =
                IF i >= Len(l) THEN [@ EXCEPT !.pc = "append"]
                ELSE IF l[i + 1].ip = ObservedIp(conns[c].src)
                     THEN [@ EXCEPT !.pc = "rejected",
                                    !.exit = "TooManyRequests"]
                     ELSE [@ EXCEPT !.i = i + 1]]
    /\ UNCHANGED <<subscribers, ws, iter, loop, request, response>>
    /\ UNCHANGED <<serverVars, clientVars, baseVars>>

\* subscribers[nsid].append(subscriber), then handle(ws) is entered
AppendSubscriber(c) ==
    /\ conns[c].pc = "append"
    /\ subscribers' = [subscribers EXCEPT ![conns[c].nsid] =
                          Append(@, Subscriber(conns[c].src))]
    /\ conns' = [conns EXCEPT ![c].pc = "handle"]
    /\ UNCHANGED <<ws, iter, loop, request, response>>
    /\ UNCHANGED <<serverVars, clientVars, baseVars>>

\* handle(ws) is left, by return or by an exception
HandleExit(c, exit) ==
    /\ conns[c].pc = "handle"
    /\ conns' = [conns EXCEPT ![c].pc = "finally", ![c].exit = exit]
    /\ UNCHANGED <<subscribers, ws, iter, loop, request, response>>
    /\ UNCHANGED <<serverVars, clientVars, baseVars>>

\* the finally clause without its guarantee: the entry is removed only
\* when handle() returned
RemoveSubscriber_on_return(c) ==
    /\ conns[c].pc = "finally"
    /\ subscribers' =
           IF conns[c].exit = "return"
           THEN [subscribers EXCEPT ![conns[c].nsid] =
                    ListRemove(@, Subscriber(conns[c].src))]
           ELSE subscribers
    /\ conns' = [conns EXCEPT ![c].pc = "ended"]
    /\ UNCHANGED <<ws, iter, loop, request, response>>
    /\ UNCHANGED <<serverVars, clientVars, baseVars>>

\* finally: subscribers[nsid].remove(subscriber), which raises ValueError
\* when no element equals the subscriber
RemoveSubscriber(c) ==
    /\ conns[c].pc = "finally"
    /\ LET l == subscribers[conns[c].nsid]
           x == Subscriber(conns[c].src)
       IN  IF \E i \in 1..Len(l) : l[i] = x
           THEN /\ subscribers' = [subscribers EXCEPT ![conns[c].nsid] =
                                      ListRemove(l, x)]
                /\ conns' = [conns EXCEPT ![c].pc = "ended"]
           ELSE /\ conns' = [conns EXCEPT ![c].pc = "ended",
                                          ![c].exit = "ValueError"]
                /\ UNCHANGED subscribers
    /\ UNCHANGED <<ws, iter, loop, request, response>>
    /\ UNCHANGED <<serverVars, clientVars, baseVars>>

TrackInit ==
    /\ ServerIdle
    /\ ClientIdle
    /\ FlaskFresh
    /\ BaseFresh

TrackStep ==
    \/ \E c \in Conns, nsid \in SubscribeNsids, src \in Sources :
           Connect(c, nsid, src)
    \/ \E c \in Conns : CheckNext(c)
    \/ \E c \in Conns : AppendSubscriber(c)
    \/ \E c \in Conns, exit \in Exits : HandleExit(c, exit)
    \/ \E c \in Conns : RemoveSubscriber(c)

TrackSpec == TrackInit /\ [][TrackStep]_vars

\* the entries of subscribers[nsid] that equal x, and the connections to
\* nsid between append and removal whose Subscriber equals x
EntriesOf(nsid, x) ==
    {i \in 1..Len(subscribers[nsid]) : subscribers[nsid][i] = x}
TrackedBy(nsid, x) ==
    {c \in Conns : /\ conns[c].pc \in Tracked
                   /\ conns[c].nsid = nsid
                   /\ Subscriber(conns[c].src) = x}

\* C11: at every moment subscribers[nsid] holds at most one entry per
\* observed address, and no two connections from one address to one
\* endpoint are in handle() together (the second one is rejected with
\* TooManyRequests before it runs the handler).
C11_OnePerAddress ==
    /\ \A nsid \in SubscribeNsids :
           \A i, j \in 1..Len(subscribers[nsid]) :
               i # j => subscribers[nsid][i].ip # subscribers[nsid][j].ip
    /\ \A c, d \in Conns :
           (/\ c # d
            /\ conns[c].pc = "handle"
            /\ conns[d].pc = "handle"
            /\ conns[c].nsid = conns[d].nsid)
               => ObservedIp(conns[c].src) # ObservedIp(conns[d].src)

\* C12: subscribers[nsid] holds one entry for each connection to nsid that
\* is between the append before handle() and the finally clause after it,
\* and nothing else: every way out of handle() removes the entry, removal
\* never fails, a rejected connection has and leaves no entry, and when no
\* connection to nsid is left the list is empty.
C12_EntryWhileHandled ==
    /\ \A nsid \in SubscribeNsids, src \in Sources :
           Cardinality(EntriesOf(nsid, Subscriber(src))) =
               Cardinality(TrackedBy(nsid, Subscriber(src)))
    /\ \A nsid \in SubscribeNsids :
           \A i \in 1..Len(subscribers[nsid]) :
               \E src \in Sources : subscribers[nsid][i] = Subscriber(src)
    /\ \A c \in Conns :
           conns[c].pc \in {"ended", "rejected"} =>
               conns[c].exit \in Exits \cup {"TooManyRequests"}

\* C12: on one endpoint a connection ended by an exception, one ended by
\* return and one was rejected, and the endpoint's list is empty again
C12_Witness ==
    \E nsid \in SubscribeNsids :
        /\ subscribers[nsid] = <<>>
        /\ \E c, d, e \in Conns :
               /\ conns[c].pc = "ended" /\ conns[c].exit = "raise"
               /\ conns[d].pc = "ended" /\ conns[d].exit = "return"
               /\ conns[e].pc = "rejected"
               /\ conns[c].nsid = nsid
               /\ conns[d].nsid = nsid
               /\ conns[e].nsid = nsid

----------------------------------------------------------------------------
(* flask_server.py: subscription.handle *)

\* the polls counted after the peer's disconnect (a history counter's cap)
MaxPolls == 2

\* TimeoutIterator.get_sentinel(): what next() returns when the timeout
\* passes with nothing in the buffer
Sentinel == [t |-> "sentinel", v |-> <<>>]

\* an exception in the buffer of the TimeoutIterator
Exc(name) == [t |-> "exception", v |-> <<name>>]

\* dag_cbor.encode(header) + dag_cbor.encode(payload)
dag_cbor_encode(header, payload) == PyBytes(<<header, payload>>)

\* how the handler's generator goes on after its last item: it ends, or it
\* blocks for ever
Endings == {"stop", "never"}

\* handle(ws) after decode_params and xrpc_server.call(nsid, **params):
\* the iterator wraps the generator, whose handler will emit script
HandleInit ==
    /\ ServerIdle
    /\ ClientIdle
    /\ BaseFresh
    /\ subscribers = [n \in SubscribeNsids |-> <<>>]
    /\ conns = [c \in Conns |-> NoConn]
    /\ request = NoRequest
    /\ response = NoResponse
    /\ ws = [connected |-> TRUE, broken |-> FALSE, sent |-> <<>>]
    /\ \E script \in SeqsUpTo(Payloads, MaxItems), ending \in Endings :
           iter = [script |-> script, ending |-> ending, buffer |-> <<>>,
                   interrupt |-> FALSE, producer |-> "running",
                   produced |-> <<>>]
    /\ loop = [pc |-> "next", result |-> PyNone, polls |-> 0]

\* the lookahead thread of the TimeoutIterator: it puts the generator's next
\* item in the buffer and stops when interrupt is set; whatever the
\* generator raises, the end of the stream included, goes in the buffer too.
\* The generator is the validator of Server.call: it raises for a payload
\* that fails validation.
Produce ==
    /\ loop # NoLoop
    /\ iter.producer = "running"
    /\ IF iter.script = <<>>
       THEN /\ iter.ending = "stop"
            /\ iter' = [iter EXCEPT !.buffer = Append(@, Exc("StopIteration")),
                                    !.producer = "stopped"]
       ELSE LET o == validate(ServerSelf, "io.example.subscribe", "message",
                              Head(iter.script))
            IN  IF o.exc # "none"
                THEN iter' = [iter EXCEPT !.script = Tail(@),
                                         !.buffer = Append(@, Exc(o.exc)),
                                         !.producer = "stopped"]
                ELSE LET item == PyTuple(<<Header, o.val>>)
                     IN  iter' = [iter EXCEPT
                            !.script = Tail(@),
                            !.produced = Append(@, item),
                            !.buffer =
                                IF iter.interrupt
                                THEN @ \o <<item, Exc("StopIteration")>>
                                ELSE Append(@, item),
                            !.producer =
                                IF iter.interrupt THEN "stopped" ELSE @]
    /\ UNCHANGED <<subscribers, conns, ws, loop, request, response>>
    /\ UNCHANGED <<serverVars, clientVars, baseVars>>

\* the peer goes away: the connection's thread clears ws.connected, or the
\* socket is dead before that flag says so and the next send raises
Disconnect(seen) ==
    /\ loop # NoLoop
    /\ IF seen THEN /\ ws.connected
                    /\ ws' = [ws EXCEPT !.connected = FALSE]
       ELSE /\ ws.connected
            /\ ~ws.broken
            /\ ws' = [ws EXCEPT !.broken = TRUE]
    /\ UNCHANGED <<subscribers, conns, iter, loop, request, response>>
    /\ UNCHANGED <<serverVars, clientVars, baseVars>>

\* "for result in iter", TimeoutIterator.__next__: the first thing in the
\* buffer, or the sentinel when the timeout passes with the buffer empty;
\* an exception from the buffer is raised, StopIteration ends the loop
LoopNext ==
    /\ loop.pc = "next"
    /\ LET polls == IF ~ws.connected /\ loop.polls < MaxPolls
                    THEN loop.polls + 1 ELSE loop.polls
       IN  IF iter.buffer = <<>>
           THEN /\ loop' = [loop EXCEPT !.pc = "check", !.result = Sentinel,
                                        !.polls = polls]
                /\ UNCHANGED iter
           ELSE /\ iter' = [iter EXCEPT !.buffer = Tail(@)]
                /\ LET data == Head(iter.buffer)
                   IN  loop' =
                         IF data.t # "exception"
                         THEN [loop EXCEPT !.pc = "check", !.result = data,
                                           !.polls = polls]
                         ELSE IF data = Exc("StopIteration")
                         THEN [loop EXCEPT !.pc = "done", !.polls = polls]
                         ELSE [loop EXCEPT !.pc = "raised", !.result = data,
                                           !.polls = polls]
    /\ UNCHANGED <<subscribers, conns, ws, request, response>>
    /\ UNCHANGED <<serverVars, clientVars, baseVars>>

\* the loop body with the two tests the other way round: a sentinel goes
\* back to the iterator before ws.connected is looked at
LoopCheck_sentinel_first ==
    /\ loop.pc = "check"
    /\ IF loop.result.t = "sentinel"
       THEN loop' = [loop EXCEPT !.pc = "next"] /\ UNCHANGED iter
       ELSE IF ~ws.connected
       THEN /\ iter' = [iter EXCEPT !.interrupt = TRUE]
            /\ loop' = [loop EXCEPT !.pc = "returned"]
       ELSE loop' = [loop EXCEPT !.pc = "send"] /\ UNCHANGED iter
    /\ UNCHANGED <<subscribers, conns, ws, request, response>>
    /\ UNCHANGED <<serverVars, clientVars, baseVars>>

\* the loop body up to the send: not connected -> interrupt and return;
\* the sentinel -> continue; else unpack the result and log it
LoopCheck ==
    /\ loop.pc = "check"
    /\ IF ~ws.connected
       THEN /\ iter' = [iter EXCEPT !.interrupt = TRUE]
            /\ loop' = [loop EXCEPT !.pc = "returned"]
       ELSE IF loop.result.t = "sentinel"
       THEN loop' = [loop EXCEPT !.pc = "next"] /\ UNCHANGED iter
       ELSE loop' = [loop EXCEPT !.pc = "send"] /\ UNCHANGED iter
    /\ UNCHANGED <<subscribers, conns, ws, request, response>>
    /\ UNCHANGED <<serverVars, clientVars, baseVars>>

\* ws.send(...): the frame goes out, or the send raises a connection error,
\* which is caught: interrupt and return
LoopSend ==
    /\ loop.pc = "send"
    /\ IF ws.connected /\ ~ws.broken
       THEN /\ ws' = [ws EXCEPT !.sent =
                        Append(@, dag_cbor_encode(loop.result.v[1],
                                                  loop.result.v[2]))]
            /\ loop' = [loop EXCEPT !.pc = "next"]
            /\ UNCHANGED iter
       ELSE /\ iter' = [iter EXCEPT !.interrupt = TRUE]
            /\ loop' = [loop EXCEPT !.pc = "returned"]
            /\ UNCHANGED ws
    /\ UNCHANGED <<subscribers, conns, request, response>>
    /\ UNCHANGED <<serverVars, clientVars, baseVars>>

\* the thread that runs handle(ws)
LoopStep == LoopNext \/ LoopCheck \/ LoopSend

HandleStep ==
    \/ Produce
    \/ \E seen \in BOOLEAN : Disconnect(seen)
    \/ LoopNext
    \/ LoopCheck
    \/ LoopSend

HandleSpec == HandleInit /\ [][HandleStep]_vars

\* the request thread keeps running and the wait in next() ends when the
\* timeout passes; nothing makes the handler emit or the peer go away
HandleFairSpec == HandleSpec /\ WF_vars(LoopStep)

LoopEnded == loop.pc \in {"returned", "done", "raised"}

\* C13: the frames sent are the handler's items in order, one frame each;
\* the loop returns on a disconnect only with the peer seen gone (flag
\* false or send failed) and the producer interrupted, nothing is sent
\* after that; after ws.connected went false at most one more next()
\* returns, and the loop ends even when the handler emits nothing more.
C13_DisconnectEndsLoop ==
    /\ [](loop # NoLoop =>
             /\ Len(ws.sent) <= Len(iter.produced)
             /\ \A i \in 1..Len(ws.sent) :
                    ws.sent[i] = dag_cbor_encode(iter.produced[i].v[1],
                                                 iter.produced[i].v[2])
             /\ loop.pc = "returned" =>
                    iter.interrupt /\ (~ws.connected \/ ws.broken)
             /\ loop.polls <= 1)
    /\ [][LoopEnded => ws'.sent = ws.sent /\ loop' = loop]_vars
    /\ ((loop # NoLoop /\ ~ws.connected) ~> LoopEnded)

\* C13: two frames were sent, then the peer went away while the handler
\* was blocked, and the loop returned after one timed out poll
C13_Witness ==
    /\ loop # NoLoop
    /\ loop.pc = "returned"
    /\ loop.polls = 1
    /\ loop.result = Sentinel
    /\ Len(ws.sent) = 2
    /\ iter.ending = "never"
    /\ iter.script = <<>>

----------------------------------------------------------------------------
(* flask_server.py: XrpcEndpoint.dispatch_request *)

RESPONSE_HEADERS ==
    ("Access-Control-Allow-Headers" :> "*") @@
    ("Access-Control-Allow-Methods" :> "*") @@
    ("Access-Control-Allow-Origin" :> "*")

\* {**a, **b}: the entries of b override those of a
Merge(a, b) == b @@ a

\* an exception object: its class, str(e) and the attributes set on it
Exception(cls, str, attrs) == [cls |-> cls, str |-> str, attrs |-> attrs]

\* XrpcError(message, name=name): it always has the attributes name and
\* message, name is None when not given
XrpcError(message, name) ==
    Exception("XrpcError", message,
              ("name" :> name) @@ ("message" :> PyStr(<<message>>)))

\* Redirect(to, status=302, headers=None)
Redirect(to, status, headers) ==
    Exception("Redirect", "",
              ("to" :> to) @@ ("status" :> status) @@ ("headers" :> headers))

\* what the handler bound to a method does when it is invoked: it returns
\* a value or raises
Behaviours ==
    {[raises |-> FALSE, output |-> o] : o \in ServerBodies} \cup
    {[raises |-> TRUE, exc |-> e] : e \in
        {Exception("ValueError", "foo", <<>>),
         Exception("NotImplementedError", "not here", <<>>),
         Exception("KeyError", "oops", <<>>),
         XrpcError("the message", PyStr(<<"TheName">>)),
         XrpcError("the message", PyNone),
         [XrpcError("the message", PyStr(<<"TheName">>)) EXCEPT
             !.attrs = @ @@ ("headers" :> ("Retry-After" :> "5"))],
         Redirect("http://to/here", 302, <<>>),
         Redirect("http://to/here", 301, ("Set-Cookie" :> "a=b")),
         Redirect("http://to/here", 302, ("Location" :> "http://else/"))}}

\* the identifier in the URL, the HTTP method, the body (PyNone: no body,
\* bytes: a body that is not JSON) and the query string
HttpNsids ==
    {"not an NSID", "io.example.undefined", "io.example.procedure",
     "io.example.subscribe"}
HttpMethods == {"POST", "OPTIONS"}
HttpBodies == ServerBodies \cup {PyBytes(<<"{">>)}
QueryArgs ==
    {<<>>, << <<"x", "y">> >>, << <<"z", "false">> >>,
     << <<"z", "foolz">> >>}

\* init_flask(server, app) on a server with the method bound to a handler
\* or not
DispatchInit ==
    /\ server = [validate |-> TRUE, truncate |-> FALSE]
    /\ _methods \in {<<>>} \cup
                     {("io.example.procedure" :> fn) : fn \in Behaviours}
    /\ first_handler = <<>>
    /\ register_exc = "none"
    /\ call = NoCall
    /\ invoked = <<>>
    /\ result = NoResult
    /\ gen = NoGen
    /\ ClientIdle
    /\ FlaskFresh
    /\ BaseFresh

PARAMETER_TYPES == {"array", "boolean", "integer", "number", "string"}

\* the integers whose decimal text the model writes and reads
MaxInt == 9
Ints == (-MaxInt)..MaxInt

\* str(i) of an integer: its decimal text
IntToStr(i) ==
    LET digits == <<"0", "1", "2", "3", "4", "5", "6", "7", "8", "9", "10">>
    IN  IF i < 0 THEN "-" \o digits[1 - i] ELSE digits[i + 1]

\* the text of a query value as the str it is
StrOf(text) == IF text = "" THEN PyStr(<<>>) ELSE PyStr(<<text>>)

\* decode_params, "decoded.setdefault(name, []).append(val)": the item of
\* an array as it goes into the list, the text itself
DecodeArrayItem(text) == StrOf(text)

\* Base.decode_params, the loop over the (name, value) pairs: a name that
\* is not declared decodes as a string; number parameters are not in the
\* model
RECURSIVE DecodeFrom(_, _, _)
DecodeFrom(params_schema, params, decoded) ==
    IF params = <<>> THEN Return(decoded)
    ELSE LET name == Head(params)[1]
             val == Head(params)[2]
             declared == {i \in DOMAIN params_schema :
                             params_schema[i][1] = name}
             type == IF declared = {} THEN "string"
                     ELSE params_schema[CHOOSE i \in declared : TRUE][2].type
             items == IF name \in DOMAIN decoded THEN decoded[name].v
                      ELSE <<>>
         IN  IF type \notin PARAMETER_TYPES
             THEN Raise("AssertionError",
                        Exception("AssertionError", type, <<>>))
             ELSE IF type = "boolean"
             THEN IF val \in {"true", "false"}
                  THEN DecodeFrom(params_schema, Tail(params),
                                  (name :> PyBool(val = "true")) @@ decoded)
                  ELSE Raise("ValueError",
                             Exception("ValueError", "Got for boolean", <<>>))
             ELSE IF type = "integer"
             THEN IF \E i \in Ints : IntToStr(i) = val
                  THEN DecodeFrom(params_schema, Tail(params),
                                  (name :> PyInt(CHOOSE i \in Ints :
                                                     IntToStr(i) = val))
                                  @@ decoded)
                  ELSE Raise("ValueError",
                             Exception("ValueError", "invalid literal", <<>>))
             ELSE IF type = "array"
             THEN DecodeFrom(params_schema, Tail(params),
                             (name :> PyList(Append(items,
                                                    DecodeArrayItem(val))))
                             @@ decoded)
             ELSE DecodeFrom(params_schema, Tail(params),
                             (name :> StrOf(val)) @@ decoded)

decode_params(self, method_nsid, params) ==
    LET lexicon == _get_def(self, method_nsid)
    IN  IF lexicon.exc # "none" THEN lexicon
        ELSE DecodeFrom(Get(Get(lexicon.val, "parameters", <<>>),
                            "properties", <<>>),
                        params, <<>>)

\* one statement of Server.call and the statements after it: what the
\* statement raises leaves the call, otherwise the call goes on
Then(r, message, rest) ==
    IF r.exc # "none" THEN Raise(r.exc, Exception(r.exc, message, <<>>))
    ELSE rest

\* Server.call run from its first line to its last: what it returns or
\* raises; what the handler raises is not caught
Server_call(nsid, input, params) ==
    IF nsid \notin DOMAIN _methods
    THEN Raise("NotImplementedError",
               Exception("NotImplementedError", "not implemented", <<>>))
    ELSE IF nsid \notin DOMAIN ServerDefs
    THEN Raise("KeyError", Exception("KeyError", nsid, <<>>))
    ELSE
    LET fn == _methods[nsid]
        output == validate(ServerSelf, nsid, "output", fn.output)
    IN  Then(validate(ServerSelf, nsid, "parameters", PyDict(params)),
             "invalid parameters",
             Then(validate(ServerSelf, nsid, "input", input),
                  "invalid input",
                  IF fn.raises THEN Raise(fn.exc.cls, fn.exc)
                  ELSE Then(output, "invalid output", output)))

\* the classes the clause "except (ValidationError, ValueError)" catches
ValueErrors == {"ValidationError", "ValueError", "XrpcError"}

HttpResponse(status, body, headers) ==
    [state |-> "sent", status |-> status, body |-> body, headers |-> headers]

ErrorBody(error, message) == PyDict([error |-> error, message |-> message])

\* what Flask answers when the view raises: 500 and a page of its own
InternalServerError ==
    HttpResponse(500, PyStr(<<"<!doctype html>">>), <<>>)

\* what request.json raises for a body that is not JSON: Flask answers
\* 400 with a page of its own
BadRequest ==
    HttpResponse(400, PyStr(<<"<!doctype html>">>), <<>>)

\* dispatch_request: the response to an exception of decode_params or
\* Server.call
ErrorResponse(e) ==
    IF e.cls = "Redirect"
    THEN HttpResponse(e.attrs["status"], PyStr(<<>>),
                      Merge(("Location" :> e.attrs["to"]),
                            e.attrs["headers"]))
    ELSE IF e.cls = "NotImplementedError"
    THEN HttpResponse(501, ErrorBody(PyStr(<<"MethodNotImplemented">>),
                                     PyStr(<<e.str>>)),
                      RESPONSE_HEADERS)
    ELSE IF e.cls \in ValueErrors
    THEN HttpResponse(400,
                      ErrorBody(Get(e.attrs, "name",
                                    PyStr(<<"InvalidRequest">>)),
                                Get(e.attrs, "message", PyStr(<<e.str>>))),
                      Merge(RESPONSE_HEADERS, Get(e.attrs, "headers", <<>>)))
    ELSE InternalServerError

\* dispatch_request, the end: the response to what decode_params and
\* Server.call returned or raised
ResponseTo(output) ==
    IF output.exc # "none" THEN ErrorResponse(output.val)
    ELSE HttpResponse(200,
                      IF Truthy(output.val) THEN output.val ELSE PyStr(<<>>),
                      RESPONSE_HEADERS)

\* dispatch_request, "output = self.server.call(nsid, input=input,
\* **params)" with the parameters as decode_params left them
CallDecoded(nsid, input, params) ==
    IF params.exc # "none" THEN params
    ELSE Server_call(nsid, input, params.val)

\* XrpcEndpoint.dispatch_request(nsid) for a request to /xrpc/<nsid>
dispatch_request(req) ==
    LET lexicon == _get_def(ServerSelf, req.nsid)
    IN  IF ~NsidMatches(req.nsid)
        THEN HttpResponse(400, ErrorBody(PyStr(<<"InvalidRequest">>),
                                         PyStr(<<"is not a valid NSID">>)),
                          RESPONSE_HEADERS)
        ELSE IF lexicon.exc # "none"
        THEN HttpResponse(501, ErrorBody(PyStr(<<"MethodNotImplemented">>),
                                         PyStr(<<"not found">>)),
                          RESPONSE_HEADERS)
        ELSE IF lexicon.val.type = "subscription"
        THEN HttpResponse(405,
                          PyDict([message |-> PyStr(<<"Use websocket">>)]),
                          <<>>)
        ELSE IF req.method = "OPTIONS"
        THEN HttpResponse(200, PyStr(<<>>), RESPONSE_HEADERS)
        ELSE IF req.body.t = "bytes" THEN BadRequest
        ELSE
        ResponseTo(CallDecoded(
            req.nsid,
            IF req.body = PyNone THEN EmptyDict ELSE req.body,
            decode_params(ServerSelf, req.nsid, req.args)))

\* a request comes in and is answered
Dispatch(req) ==
    /\ request = NoRequest
    /\ request' = req
    /\ response' = dispatch_request(req)
    /\ UNCHANGED <<subscribers, conns, ws, iter, loop>>
    /\ UNCHANGED <<serverVars, clientVars, baseVars>>

DispatchStep ==
    \E req \in [nsid : HttpNsids, method : HttpMethods, body : HttpBodies,
                 args : QueryArgs] : Dispatch(req)

DispatchSpec == DispatchInit /\ [][DispatchStep]_vars

\* what the handler of the request's method raised, if the call got to it
Handled ==
    /\ response # NoResponse
    /\ request.nsid \in DOMAIN _methods
    /\ request.method = "POST"
    /\ request.body.t # "bytes"
    /\ decode_params(ServerSelf, request.nsid, request.args).exc = "none"
    /\ validate(ServerSelf, request.nsid, "parameters",
                PyDict(decode_params(ServerSelf, request.nsid,
                                     request.args).val)).exc = "none"
    /\ validate(ServerSelf, request.nsid, "input",
                IF request.body = PyNone THEN EmptyDict
                ELSE request.body).exc = "none"
HandlerRaised(cls) ==
    /\ Handled
    /\ _methods[request.nsid].raises
    /\ _methods[request.nsid].exc.cls = cls

\* C14: a response that is not a success or a redirect has a body with a
\* non-empty string error and a message: MethodNotImplemented with 501
\* for an identifier without definition or without handler, the name and
\* message of the handler's XrpcError, InvalidRequest with 400 otherwise.
C14_ErrorShape ==
    (response # NoResponse /\ response.status >= 400) =>
        /\ response.body.t = "dict"
        /\ DOMAIN response.body.v = {"error", "message"}
        /\ response.body.v["error"].t = "str"
        /\ response.body.v["error"].v # <<>>
        /\ response.body.v["message"].t = "str"
        /\ IF \/ request.nsid \notin DOMAIN ServerDefs /\ NsidMatches(request.nsid)
              \/ request.nsid \notin DOMAIN _methods /\ NsidMatches(request.nsid)
           THEN /\ response.status = 501
                /\ response.body.v["error"] = PyStr(<<"MethodNotImplemented">>)
           ELSE IF HandlerRaised("XrpcError")
           THEN /\ response.body.v["error"] =
                       _methods[request.nsid].exc.attrs["name"]
                /\ response.body.v["message"] =
                       _methods[request.nsid].exc.attrs["message"]
           ELSE IF HandlerRaised("NotImplementedError")
           THEN response.status = 501
           ELSE /\ response.status = 400
                /\ response.body.v["error"] = PyStr(<<"InvalidRequest">>)

\* C15: when the handler raises Redirect, the response has an empty body,
\* the status of the Redirect and the headers of the Redirect together
\* with Location, which is the target.
C15_RedirectResponse ==
    HandlerRaised("Redirect") =>
        LET r == _methods[request.nsid].exc
        IN  /\ response.body = PyStr(<<>>)
            /\ response.status = r.attrs["status"]
            /\ "Location" \in DOMAIN response.headers
            /\ response.headers["Location"] = r.attrs["to"]
            /\ \A h \in DOMAIN r.attrs["headers"] :
                   /\ h \in DOMAIN response.headers
                   /\ response.headers[h] = r.attrs["headers"][h]

----------------------------------------------------------------------------
(* base.py: Base.__init__ *)

\* the most lexicon documents one construction is given
MaxLexicons == 2

LEXICON_TYPES ==
    {"query", "procedure", "subscription", "object", "record", "ref", "token"}

BLOB_DEF ==
    [type |-> "record",
     record |-> [required |-> <<"ref", "mimeType", "size">>,
                 properties |-> << <<"ref", [type |-> "ref"]>>,
                                   <<"mimeType", [type |-> "string",
                                                  minLength |-> 1]>>,
                                   <<"size", [type |-> "integer",
                                              minimum |-> 1]>> >>]]

\* a lexicon document: id (PyNone when missing), the lexicon field and
\* the defs as the list of their (name, definition) items
Document(id, lexicon, defs) == [id |-> id, lexicon |-> lexicon, defs |-> defs]

\* the documents a construction may be given: two with the same id that
\* both define main, differently; one more with that id and another
\* name; a second id; and three that are not valid
Documents ==
    {Document(PyStr(<<"io.example.a">>), 1,
              << <<"main", [type |-> "query", description |-> "first"]>> >>),
     Document(PyStr(<<"io.example.a">>), 1,
              << <<"main", [type |-> "procedure", description |-> "second"]>>,
                 <<"item", [type |-> "object", description |-> "second"]>> >>),
     Document(PyStr(<<"io.example.a">>), 1,
              << <<"item", [type |-> "token", description |-> "third"]>> >>),
     Document(PyStr(<<"io.example.b">>), 1,
              << <<"main", [type |-> "record", description |-> "b"]>> >>),
     Document(PyNone, 1,
              << <<"main", [type |-> "query", description |-> "no id"]>> >>),
     Document(PyStr(<<"io.example.c">>), 2,
              << <<"main", [type |-> "query", description |-> "v2"]>> >>),
     Document(PyStr(<<"io.example.d">>), 1,
              << <<"main", [type |-> "float", description |-> "bad"]>> >>)}

\* id = nsid if name == 'main' else f'{nsid}#{name}'
DefId(nsid, name) == IF name = "main" THEN nsid ELSE nsid \o "#" \o name

\* Base.__init__, "for name, defn in lexicon.get('defs', {}).items()":
\* the defs after the items from the i-th on, or the error raised
RECURSIVE LoadDefs(_, _, _, _)
LoadDefs(self_defs, nsid, defs, i) ==
    IF i > Len(defs) THEN Return(self_defs)
    ELSE LET id == DefId(nsid, defs[i][1])
             defn == defs[i][2]
         IN  IF defn.type \notin LEXICON_TYPES \cup PARAMETER_TYPES
             THEN Raise("ValidationError", (id :> defn) @@ self_defs)
             ELSE LoadDefs((id :> defn) @@ self_defs, nsid, defs, i + 1)

\* Base.__init__, "for i, lexicon in enumerate(copy.deepcopy(lexicons))"
RECURSIVE LoadLexicons(_, _, _)
LoadLexicons(self_defs, lexs, i) ==
    IF i > Len(lexs) THEN Return(self_defs)
    ELSE LET lexicon == lexs[i]
         IN  IF lexicon.id.t # "str" \/ ~Truthy(lexicon.id)
             THEN Raise("ValidationError", self_defs)
             ELSE IF lexicon.lexicon # 1
             THEN Raise("ValidationError", self_defs)
             ELSE LET r == LoadDefs(self_defs, lexicon.id.v[1],
                                    lexicon.defs, 1)
                  IN  IF r.exc # "none" THEN r
                      ELSE LoadLexicons(r.val, lexs, i + 1)

\* Base(lexicons=...) is about to be called with these documents
LoadInit ==
    /\ ServerIdle
    /\ ClientIdle
    /\ FlaskFresh
    /\ lexicons \in SeqsUpTo(Documents, MaxLexicons)
    /\ base = NoBase
    /\ args = NoArgs
    /\ obj = PyNone
    /\ returned = NoResult

\* Base.__init__(lexicons): self.defs with the blob definition added, or
\* the ValidationError
Base_init ==
    /\ base = NoBase
    /\ LET r == LoadLexicons(<<>>, lexicons, 1)
       IN  base' = IF r.exc # "none"
                   THEN [state |-> "raised", exc |-> r.exc]
                   ELSE [state |-> "built",
                         defs |-> ("blob" :> BLOB_DEF) @@ r.val]
    /\ UNCHANGED <<lexicons, args, obj, returned>>
    /\ UNCHANGED <<serverVars, clientVars, flaskVars>>

LoadSpec == LoadInit /\ [][Base_init]_vars

\* the (document, item) places of the lexicons whose definition gets id
PlacesOf(id) ==
    {<<i, j>> \in (1..Len(lexicons)) \X (1..2) :
        /\ j <= Len(lexicons[i].defs)
        /\ lexicons[i].id.t = "str"
        /\ DefId(lexicons[i].id.v[1], lexicons[i].defs[j][1]) = id}

\* C16: when two definitions of the documents resolve to the same id,
\* the construction raises ValidationError and builds no registry.
C16_DuplicateRejected ==
    (/\ base # NoBase
     /\ \E i \in 1..Len(lexicons), j \in 1..2 :
            /\ j <= Len(lexicons[i].defs)
            /\ lexicons[i].id.t = "str"
            /\ Cardinality(PlacesOf(DefId(lexicons[i].id.v[1],
                                          lexicons[i].defs[j][1]))) > 1)
        => base.state = "raised"

----------------------------------------------------------------------------
(* base.py: Base.validate on records, unions and parameters *)

\* io.example.record as in tests/lexicons.py
RecordDef ==
    [type |-> "record",
     record |-> [required |-> <<"baz">>,
                 properties |->
                     << <<"baz", [type |-> "integer"]>>,
                        <<"biff", [type |-> "object",
                                   properties |->
                                       << <<"baj", [type |-> "string"]>> >>]>>
                     >>]]

\* io.example.record with required keys that no property declares, at top
\* level and in the nested object
UndeclaredDef ==
    [type |-> "record",
     record |-> [required |-> <<"baz", "qux">>,
                 properties |->
                     << <<"baz", [type |-> "integer"]>>,
                        <<"biff", [type |-> "object",
                                   required |-> <<"baj", "zot">>,
                                   properties |->
                                       << <<"baj", [type |-> "string"]>> >>]>>
                     >>]]

\* io.example.kitchenSink#subobject as in tests/lexicons.py
SubobjectDef ==
    [type |-> "object", required |-> <<"boolean">>,
     properties |-> << <<"boolean", [type |-> "boolean"]>> >>]

\* an object definition next to the union, named by a bare fragment
LocalDef ==
    [type |-> "object",
     properties |-> << <<"num", [type |-> "integer"]>> >>]

\* io.example.union as in tests/lexicons.py, with a closed union of the
\* same refs next to the open one
UnionRefs == <<"io.example.kitchenSink#subobject", "#local">>
UnionDef ==
    [type |-> "record",
     record |-> [type |-> "object",
                 properties |->
                     << <<"unionOpen", [type |-> "union",
                                        refs |-> UnionRefs]>>,
                        <<"unionClosed", [type |-> "union", closed |-> TRUE,
                                          refs |-> UnionRefs]>> >>]]

\* io.example.stringLength as in tests/lexicons.py, with a maxGraphemes
\* short enough for the model's strings
StringLengthDef ==
    [type |-> "record",
     record |-> [type |-> "object",
                 properties |-> << <<"string", [type |-> "string",
                                                maxGraphemes |-> 2]>> >>]]

\* the same properties declared as parameters, as the object of an input
\* and as a record
SameProperties ==
    << <<"x", [type |-> "string"]>>, <<"z", [type |-> "boolean"]>> >>
SameDef ==
    [type |-> "procedure",
     parameters |-> [type |-> "params", properties |-> SameProperties],
     input |-> [encoding |-> "application/json",
                schema |-> [type |-> "object",
                            properties |-> SameProperties]]]
SameRecordDef ==
    [type |-> "record",
     record |-> [type |-> "object", properties |-> SameProperties]]

\* a record of strings with length bounds: as properties with
\* maxGraphemes 1 and 3, with maxGraphemes and a maxLength that the
\* ellipsis overruns, with maxLength alone, as the items of an array, and
\* in an object behind a ref (as in BaseTest.test_validate_truncate)
TruncateDef ==
    [type |-> "record",
     record |-> [type |-> "object",
                 properties |->
                     << <<"g1", [type |-> "string", maxGraphemes |-> 1]>>,
                        <<"g3", [type |-> "string", maxGraphemes |-> 3]>>,
                        <<"both", [type |-> "string", maxGraphemes |-> 2,
                                   maxLength |-> 3]>>,
                        <<"len", [type |-> "string", maxLength |-> 2]>>,
                        <<"items", [type |-> "array",
                                    items |-> [type |-> "string",
                                               maxGraphemes |-> 2]]>>,
                        <<"ref", [type |-> "ref", ref |-> "#inner"]>> >>]]

\* the object behind the ref of TruncateDef
InnerDef ==
    [type |-> "object",
     properties |-> << <<"text", [type |-> "string", maxGraphemes |-> 2]>> >>]

\* io.example.array as in tests/lexicons.py: the output is an array
ArrayDef ==
    [type |-> "procedure",
     parameters |-> [type |-> "params",
                     properties |->
                         << <<"foo", [type |-> "array",
                                      items |-> [type |-> "string"]]>> >>],
     input |-> [encoding |-> "application/json",
                schema |-> [type |-> "object"]],
     output |-> [encoding |-> "application/json",
                 schema |-> [type |-> "array",
                             items |-> [type |-> "string"]]]]

\* io.example.subscribeUnion as in tests/lexicons.py: the message is a
\* union, and its definitions foo and bar
SubscribeUnionDef ==
    [type |-> "subscription",
     message |-> [schema |-> [type |-> "union",
                              refs |-> <<"#foo", "#bar">>]]]
FooDef ==
    [type |-> "object", required |-> <<"x">>, nullable |-> <<"y">>,
     properties |-> << <<"x", [type |-> "integer"]>>,
                       <<"y", [type |-> "string"]>>,
                       <<"z", [type |-> "string"]>> >>]
BarDef ==
    [type |-> "object",
     properties |-> << <<"a", [type |-> "string"]>> >>]

\* MIME types and accept patterns, as the parts that split('/') gives
\* with the slash between them
Mime(type, subtype) == <<type, "/", subtype>>

\* Base.validate_mime_type(mime_type, accept): TRUE when it returns, FALSE
\* when it raises ValidationError
validate_mime_type(mime_type, accept) ==
    IF accept = <<>> \/ Mime("*", "*") \in ListItems(accept) THEN TRUE
    ELSE ~ \/ mime_type = <<>>
           \/ /\ mime_type \notin ListItems(accept)
              /\ Mime(Head(mime_type), "*") \notin ListItems(accept)

\* a record of blobs: with a type/* pattern and a maxSize, with one exact
\* type, with */*, with an empty accept and with neither
BlobRecordDef ==
    [type |-> "record",
     record |-> [type |-> "object",
                 properties |->
                     << <<"image", [type |-> "blob",
                                    accept |-> <<Mime("image", "*")>>,
                                    maxSize |-> 100]>>,
                        <<"exact", [type |-> "blob",
                                    accept |-> <<Mime("image", "png")>>]>>,
                        <<"any", [type |-> "blob",
                                  accept |-> <<Mime("*", "*")>>]>>,
                        <<"empty", [type |-> "blob", accept |-> <<>>]>>,
                        <<"plain", [type |-> "blob"]>> >>]]

\* the format names the code knows, and names it does not know: pieces of
\* handle, a name in capitals, a name of another vocabulary
KnownFormats ==
    {Fmt_at_identifier, Fmt_at_uri, Fmt_cid, Fmt_datetime, Fmt_did, Fmt_nsid,
     Fmt_handle, Fmt_tid, Fmt_record_key, Fmt_uri, Fmt_language}
UnknownFormats ==
    {<<"h", "a", "n", "d">>, <<"h">>, <<"d", "l", "e">>,
     <<"H", "a", "n", "d", "l", "e">>, <<"e", "m", "a", "i", "l">>,
     <<"d", "i", "d", "s">>}

\* a string property that declares the format
FormatProp(name, format) == <<name, [type |-> "string", format |-> format]>>

\* one property for every format name, named after it
FormatProps ==
    <<FormatProp("at-identifier", Fmt_at_identifier),
      FormatProp("at-uri", Fmt_at_uri),
      FormatProp("cid", Fmt_cid),
      FormatProp("datetime", Fmt_datetime),
      FormatProp("did", Fmt_did),
      FormatProp("nsid", Fmt_nsid),
      FormatProp("handle", Fmt_handle),
      FormatProp("tid", Fmt_tid),
      FormatProp("record-key", Fmt_record_key),
      FormatProp("uri", Fmt_uri),
      FormatProp("language", Fmt_language),
      FormatProp("hand", <<"h", "a", "n", "d">>),
      FormatProp("h", <<"h">>),
      FormatProp("dle", <<"d", "l", "e">>),
      FormatProp("Handle", <<"H", "a", "n", "d", "l", "e">>),
      FormatProp("email", <<"e", "m", "a", "i", "l">>),
      FormatProp("dids", <<"d", "i", "d", "s">>)>>

\* a record with one string property for every format name
FormatsDef ==
    [type |-> "record",
     record |-> [type |-> "object", properties |-> FormatProps]]

\* a record of constants and enums: a constant of each kind with a truthy
\* and with a falsy value, an enum of strings, of integers, and an empty one
ConstsDef ==
    [type |-> "record",
     record |-> [type |-> "object",
                 properties |->
                     << <<"cTrue", [type |-> "boolean",
                                    const |-> PyBool(TRUE)]>>,
                        <<"cFalse", [type |-> "boolean",
                                     const |-> PyBool(FALSE)]>>,
                        <<"cOne", [type |-> "integer", const |-> PyInt(1)]>>,
                        <<"cZero", [type |-> "integer", const |-> PyInt(0)]>>,
                        <<"cStr", [type |-> "string",
                                   const |-> PyStr(<<"x">>)]>>,
                        <<"cEmpty", [type |-> "string",
                                     const |-> PyStr(<<>>)]>>,
                        <<"eStr", [type |-> "string",
                                   enum |-> <<PyStr(<<"x">>),
                                              PyStr(<<"y">>)>>]>>,
                        <<"eInt", [type |-> "integer",
                                   enum |-> <<PyInt(0), PyInt(1)>>]>>,
                        <<"eNone", [type |-> "string", enum |-> <<>>]>> >>]]

\* the largest bound an integer property of RangesDef declares; the
\* smallest is its negative
MaxBound == 2

\* an integer property with the given bounds
RangeProp(name, schema) == <<name, [type |-> "integer"] @@ schema>>

\* a record of integers with bounds: positive, zero and negative, one
\* bound or both
RangesDef ==
    [type |-> "record",
     record |-> [type |-> "object",
                 properties |->
                     <<RangeProp("pos", [minimum |-> 1, maximum |-> MaxBound]),
                       RangeProp("neg", [minimum |-> -MaxBound, maximum |-> -1]),
                       RangeProp("span", [minimum |-> -1, maximum |-> 1]),
                       RangeProp("min0", [minimum |-> 0]),
                       RangeProp("max0", [maximum |-> 0]),
                       RangeProp("zero", [minimum |-> 0, maximum |-> 0]),
                       RangeProp("minNeg", [minimum |-> -1]),
                       RangeProp("maxPos", [maximum |-> 1])>>]]

\* Base.defs of the object whose validate is called
ValidateDefs ==
    ("io.example.consts" :> ConstsDef) @@
    ("io.example.ranges" :> RangesDef) @@
    ("io.example.formats" :> FormatsDef) @@
    ("io.example.blob" :> BlobRecordDef) @@
    ("io.example.array" :> ArrayDef) @@
    ("io.example.subscribeUnion" :> SubscribeUnionDef) @@
    ("io.example.subscribeUnion#foo" :> FooDef) @@
    ("io.example.subscribeUnion#bar" :> BarDef) @@
    ("io.example.truncate" :> TruncateDef) @@
    ("io.example.truncate#inner" :> InnerDef) @@
    ("io.example.record" :> RecordDef) @@
    ("io.example.undeclared" :> UndeclaredDef) @@
    ("io.example.kitchenSink#subobject" :> SubobjectDef) @@
    ("io.example.union#local" :> LocalDef) @@
    ("io.example.union" :> UnionDef) @@
    ("io.example.stringLength" :> StringLengthDef) @@
    ("io.example.same" :> SameDef) @@
    ("io.example.sameRecord" :> SameRecordDef) @@
    ("blob" :> BLOB_DEF)

\* a dict with one more entry
With(d, k, v) == PyDict((k :> v) @@ d.v)

\* a dict without the keys in ks
Without(d, ks) == PyDict([k \in (DOMAIN d.v) \ ks |-> d.v[k]])

Typed(name) == PyDict("$type" :> PyStr(<<name>>))

\* values of record fields
RecordObjs ==
    LET baz == PyDict([baz |-> PyInt(3)])
        biff == PyDict([baj |-> PyStr(<<"foo">>)])
    IN  {EmptyDict, baz,
         PyDict([baz |-> PyStr(<<"x">>)]),
         With(baz, "biff", EmptyDict),
         With(baz, "biff", biff),
         With(baz, "biff", PyInt(4)),
         PyDict([biff |-> biff]),
         With(baz, "qux", PyInt(1)),
         With(With(baz, "qux", PyInt(1)), "biff", biff),
         With(With(baz, "qux", PyInt(1)), "biff",
              With(biff, "zot", PyInt(1))),
         With(baz, "extra", PyStr(<<"y">>))}

\* values of union fields: discriminators in the refs, known outside
\* the refs, and unknown, with fields that fit the definition or do not
UnionVals ==
    {With(Typed("io.example.kitchenSink#subobject"), "boolean", PyBool(FALSE)),
     With(Typed("io.example.kitchenSink#subobject"), "boolean", PyInt(123)),
     With(Typed("io.example.union#local"), "num", PyInt(1)),
     With(Typed("io.example.record"), "baz", PyInt(5)),
     With(Typed("io.example.record"), "baz", PyStr(<<"x">>)),
     With(Typed("un.known"), "foo", PyStr(<<"bar">>)),
     With(Typed("un.known"), "boolean", PyInt(123)),
     PyDict([boolean |-> PyBool(FALSE)])}

\* mappings with and without a key that SameProperties does not declare
SameObjs ==
    LET x == PyDict([x |-> PyStr(<<"y">>)])
    IN  {EmptyDict, x,
         With(x, "z", PyBool(TRUE)),
         PyDict([x |-> PyInt(3)]),
         PyDict([extra |-> PyStr(<<"e">>)]),
         With(x, "extra", PyStr(<<"e">>)),
         With(With(x, "z", PyBool(TRUE)), "extra", PyInt(1)),
         With(PyDict([x |-> PyInt(3)]), "extra", PyStr(<<"e">>))}

\* the calls validate(nsid, type, obj) of the model
Calls ==
    [nsid : {"io.example.record", "io.example.undeclared"},
     type : {"record"}, obj : RecordObjs] \cup
    [nsid : {"io.example.union"}, type : {"record"},
     obj : {PyDict((p :> u)) : p \in {"unionOpen", "unionClosed"},
                               u \in UnionVals}] \cup
    [nsid : {"io.example.stringLength"}, type : {"record"},
     obj : {PyDict([string |-> PyStr(<<"a", "b">>)]),
            PyDict([string |-> PyStr(<<"a", "b", "c">>)])}] \cup
    [nsid : {"io.example.same"}, type : {"parameters", "input"},
     obj : SameObjs] \cup
    [nsid : {"io.example.sameRecord"}, type : {"record"}, obj : SameObjs]

\* a Base (a Server or a Client) built with the flags, and the arguments
\* of the validate call it is about to get
ValidateInit ==
    /\ ServerIdle
    /\ ClientIdle
    /\ FlaskFresh
    /\ lexicons = <<>>
    /\ base \in [state : {"built"}, validate : BOOLEAN, truncate : BOOLEAN]
    /\ args \in Calls
    /\ obj = args.obj
    /\ returned = NoResult

ValidateSelf ==
    [defs |-> ValidateDefs, validate |-> base.validate,
     truncate |-> base.truncate]

\* self.validate(nsid, type, obj): what comes back is the caller's object
\* itself, so what validation wrote into it is in the caller's object too
Validate ==
    /\ args # NoArgs
    /\ returned = NoResult
    /\ returned' = validate(ValidateSelf, args.nsid, args.type, obj)
    /\ obj' = returned'.val
    /\ UNCHANGED <<lexicons, base, args>>
    /\ UNCHANGED <<serverVars, clientVars, flaskVars>>

ValidateSpec == ValidateInit /\ [][Validate]_vars

\* the call was made by an object that validates
Strict == returned # NoResult /\ base.validate

\* the schema validate() takes for the call
CallSchema ==
    LET part == ValidateDefs[args.nsid][args.type]
    IN  IF args.type \in {"input", "output", "message"} THEN part.schema
        ELSE part

\* the schema of the property name
PropSchema(schema, name) ==
    schema.properties[CHOOSE i \in DOMAIN schema.properties :
                          schema.properties[i][1] = name][2]

\* truncation is on and a string of the object is longer than the
\* maxGraphemes of its property
TruncationTriggered ==
    /\ base.truncate
    /\ \E i \in DOMAIN CallSchema.properties :
           LET name == CallSchema.properties[i][1]
               max_graphemes == Get(CallSchema.properties[i][2],
                                    "maxGraphemes", 0)
           IN  /\ max_graphemes # 0
               /\ name \in DOMAIN args.obj.v
               /\ args.obj.v[name].t = "str"
               /\ Len(args.obj.v[name].v) > max_graphemes

C18_RequiredEnforced ==
    (/\ Strict
     /\ args.nsid \in {"io.example.record", "io.example.undeclared"}) =>
        LET required == ListItems(CallSchema.required)
            nested == ListItems(Get(PropSchema(CallSchema, "biff"),
                                    "required", <<>>))
        IN  /\ required \ DOMAIN args.obj.v # {}
                   => returned.exc = "ValidationError"
            /\ (/\ "biff" \in DOMAIN args.obj.v
                /\ args.obj.v["biff"].t = "dict"
                /\ nested \ DOMAIN args.obj.v["biff"].v # {})
                   => returned.exc = "ValidationError"
            /\ \A k \in (DOMAIN args.obj.v) \ required :
                   returned.exc = "none" =>
                       validate(ValidateSelf, args.nsid, args.type,
                                Without(args.obj, {k})).exc = "none"

\* the union property of the call and its value
UnionProp == CHOOSE p \in DOMAIN args.obj.v : TRUE
UnionVal == args.obj.v[UnionProp]

\* validation of a value against the definition with the given name
AgainstDefinition(name, val) ==
    IF ValidateDefs[name].type = "record"
    THEN validate(ValidateSelf, name, "record", val)
    ELSE _validate_schema(ValidateSelf, val, ValidateDefs[name].type, name,
                          ValidateDefs[name])

\* C19: a mapping whose $type names no definition validates against the
\* open union unchanged, whatever else it holds; a mapping whose $type is
\* not among the resolved refs fails against the closed union; against
\* the open union a $type that names a definition, in the refs or not,
\* gives the outcome of validating the mapping against that definition.
C19_UnionForwardCompatible ==
    (/\ Strict
     /\ args.nsid = "io.example.union"
     /\ TypeName(InnerType(UnionVal)) # "") =>
        LET name == TypeName(InnerType(UnionVal))
            resolved == urljoin(args.nsid, name)
            refs == {urljoin(args.nsid, ref) : ref \in ListItems(UnionRefs)}
        IN  IF UnionProp = "unionClosed"
            THEN name \notin refs => returned.exc = "ValidationError"
            ELSE IF resolved \notin DOMAIN ValidateDefs
            THEN returned = Return(args.obj)
            ELSE returned.exc = AgainstDefinition(resolved, UnionVal).exc

\* C19: a mapping with an unknown $type and a field that no definition
\* would accept validated against the open union
C19_Witness ==
    /\ Strict
    /\ args.nsid = "io.example.union"
    /\ UnionProp = "unionOpen"
    /\ UnionVal = With(Typed("un.known"), "boolean", PyInt(123))
    /\ returned = Return(args.obj)

\* the keys of the call's mapping that SameProperties does not declare
Extras == (DOMAIN args.obj.v) \ PropNames(SameProperties)

----------------------------------------------------------------------------
(* Base.validate on the kinds of schema: bounded strings, top-level        *)
(* arrays and unions, blobs, formats, constants and ranges                 *)

\* the longest string the model validates, in graphemes
MaxGraphemes == 4

\* the strings "", "a", "ab", ... of up to MaxGraphemes graphemes
Letters == <<"a", "b", "c", "d", "e", "f">>
Strings == {SubSeq(Letters, 1, k) : k \in 0..MaxGraphemes}

\* records of io.example.truncate: one string under each property
TruncateObjs ==
    {PyDict((p :> PyStr(str))) : p \in {"g1", "g3", "both", "len"},
                                str \in Strings} \cup
    {PyDict([items |-> PyList(<<PyStr(<<"a">>), PyStr(str)>>)]) :
        str \in Strings} \cup
    {PyDict([ref |-> PyDict([text |-> PyStr(str)])]) : str \in Strings}

\* values for the output of io.example.array: a dict, lists with and
\* without an item that is no string, a string, None
ArrayOutputs ==
    {PyDict([not |-> PyStr(<<"an array">>)]),
     PyList(<<PyStr(<<"valid">>), PyInt(123), PyStr(<<"also valid">>)>>),
     PyList(<<PyStr(<<"valid">>), PyStr(<<"also valid">>)>>),
     PyList(<<>>),
     PyStr(<<"valid">>),
     PyInt(123)}

\* messages of io.example.subscribeUnion: variants foo and bar with and
\* without a null, a wrong type, a missing required property
UnionMessages ==
    LET foo == With(Typed("#foo"), "x", PyInt(1))
    IN  {foo,
         With(foo, "z", PyNone),
         With(foo, "y", PyNone),
         With(foo, "z", PyInt(2)),
         Typed("#foo"),
         With(Typed("#bar"), "a", PyStr(<<"s">>)),
         With(Typed("#bar"), "a", PyInt(7)),
         PyDict([x |-> PyInt(1)])}

\* a blob value with the given MIME type and size
Blob(mime_type, size) ==
    PyDict([ref |-> PyDict([link |-> PyStr(<<"bafy">>)]),
            mimeType |-> PyStr(mime_type), size |-> PyInt(size)])

\* blob values: within and over the maxSize, of three MIME types, and
\* without size, without mimeType, without anything
BlobVals ==
    {Blob(m, size) : m \in {Mime("image", "png"), Mime("image", "gif"),
                            Mime("text", "plain")},
                     size \in {50, 200}} \cup
    {Without(Blob(Mime("image", "png"), 50), {"size"}),
     Without(Blob(Mime("image", "png"), 50), {"ref"}),
     EmptyDict}

\* records of io.example.blob: one blob under each property
BlobObjs ==
    {PyDict((p :> b)) : p \in PropNames(BlobRecordDef.record.properties),
                        b \in BlobVals}

\* records of io.example.formats: one of the strings of Conforming, or
\* the empty string, under each property
FormatObjs ==
    {PyDict((p :> PyStr(<<str>>))) : p \in PropNames(FormatProps),
                                     str \in DOMAIN Conforming} \cup
    {PyDict((p :> PyStr(<<>>))) : p \in PropNames(FormatProps)}

\* records of io.example.consts: a boolean, an integer or a string under
\* each property
ConstObjs ==
    {PyDict((p :> x)) :
        p \in PropNames(ConstsDef.record.properties),
        x \in {PyBool(TRUE), PyBool(FALSE), PyInt(0), PyInt(1), PyInt(2),
               PyStr(<<>>), PyStr(<<"x">>), PyStr(<<"z">>)}}

\* records of io.example.ranges: an integer around the bounds under each
\* property
RangeObjs ==
    {PyDict((p :> PyInt(i))) :
        p \in PropNames(RangesDef.record.properties),
        i \in (-MaxBound - 1)..(MaxBound + 1)}

\* the validate calls of the model
KindCalls ==
    [nsid : {"io.example.consts"}, type : {"record"}, obj : ConstObjs] \cup
    [nsid : {"io.example.ranges"}, type : {"record"}, obj : RangeObjs] \cup
    [nsid : {"io.example.formats"}, type : {"record"}, obj : FormatObjs] \cup
    [nsid : {"io.example.blob"}, type : {"record"}, obj : BlobObjs] \cup
    [nsid : {"io.example.truncate"}, type : {"record"}, obj : TruncateObjs]
    \cup
    [nsid : {"io.example.array"}, type : {"output"}, obj : ArrayOutputs] \cup
    [nsid : {"io.example.subscribeUnion"}, type : {"message"},
     obj : UnionMessages]

\* a Base (a Server or a Client) built with the flags, and the arguments
\* of the validate call it is about to get
KindsInit ==
    /\ ServerIdle
    /\ ClientIdle
    /\ FlaskFresh
    /\ lexicons = <<>>
    /\ base \in [state : {"built"}, validate : BOOLEAN, truncate : BOOLEAN]
    /\ args \in KindCalls
    /\ obj = args.obj
    /\ returned = NoResult

KindsSpec == KindsInit /\ [][Validate]_vars

\* the one property of the object of the call, its value and its schema
CallProp == CHOOSE p \in DOMAIN args.obj.v : TRUE
CallVal == args.obj.v[CallProp]
CallPropSchema == PropSchema(CallSchema, CallProp)

\* the call validates a string under a property that declares
\* maxGraphemes and no other bound
GraphemeCall ==
    /\ returned # NoResult
    /\ args.nsid = "io.example.truncate"
    /\ CallProp \in {"g1", "g3"}

\* C21: for a string property with maxGraphemes n, a string of at most n
\* graphemes comes back unchanged; a longer one fails with ValidationError
\* when truncate is off and validation on; with truncate on it comes back
\* as its first n-1 graphemes and the ellipsis, n graphemes in all; and
\* validating what came back once more changes nothing.
C21_GraphemeBoundary ==
    GraphemeCall =>
        LET n == CallPropSchema.maxGraphemes
            str == CallVal.v
        IN  /\ Len(str) <= n => returned = Return(args.obj)
            /\ (Len(str) > n /\ ~base.truncate /\ base.validate)
                   => returned.exc = "ValidationError"
            /\ (Len(str) > n /\ base.truncate) =>
                   LET out == returned.val.v[CallProp].v
                   IN  /\ returned.exc = "none"
                       /\ out = SubSeq(str, 1, n - 1) \o <<Ellipsis>>
                       /\ Len(out) = n
                       /\ out[n] = Ellipsis
            /\ (returned.exc = "none" /\ base.truncate) =>
                   validate(ValidateSelf, args.nsid, args.type, returned.val)
                       = Return(returned.val)

\* C21: a string of n+1 graphemes came back truncated to n, a string of
\* exactly n came back as it was
C21_Witness ==
    /\ GraphemeCall
    /\ base.truncate
    /\ base.validate
    /\ CallProp = "g3"
    /\ \/ CallVal.v = <<"a", "b", "c", "d">>
          /\ returned = Return(PyDict([g3 |-> PyStr(<<"a", "b", Ellipsis>>)]))
       \/ CallVal.v = <<"a", "b", "c">>
          /\ returned = Return(args.obj)

\* the strings of a record of io.example.truncate, each with the schema
\* that bounds it
BoundedStrings(val) ==
    LET prop_val == val.v[CallProp]
    IN  IF CallProp = "items"
        THEN {<<CallPropSchema.items, prop_val.v[i].v>> :
                 i \in DOMAIN prop_val.v}
        ELSE IF CallProp = "ref"
        THEN {<<PropSchema(InnerDef, "text"), prop_val.v["text"].v>>}
        ELSE {<<CallPropSchema, prop_val.v>>}

\* the string is within the maxGraphemes and the maxLength of the schema
WithinBounds(schema, str) ==
    /\ "maxGraphemes" \in DOMAIN schema => Len(str) <= schema.maxGraphemes
    /\ "maxLength" \in DOMAIN schema => Utf8Len(str) <= schema.maxLength

\* C22: with truncate on, validating a record whose only possible fault is
\* an over-long string (a property, an array item, a property of an object
\* behind a ref) never raises, and every string of the record that comes
\* back is within its maxGraphemes and its maxLength.
C22_TruncateNeverRejects ==
    (/\ returned # NoResult
     /\ base.truncate
     /\ args.nsid = "io.example.truncate") =>
        /\ returned.exc = "none"
        /\ \A b \in BoundedStrings(returned.val) : WithinBounds(b[1], b[2])

\* C27: after validate, the object the caller passed in holds what it held
\* when it was passed.
C27_CallerObjectUntouched ==
    returned # NoResult => obj = args.obj

\* C23: validating a value as the output of io.example.array or as the
\* message of io.example.subscribeUnion has the outcome of validating it
\* against that schema under its declared type, as for a property: a value
\* that is no list fails against the array, and so does a list with an
\* item that is no string; the message fails when the variant its $type
\* names has a null under a property that is not nullable.
C23_TopLevelTypeEnforced ==
    (/\ Strict
     /\ args.nsid \in {"io.example.array", "io.example.subscribeUnion"}) =>
        /\ returned.exc =
               _validate_schema(ValidateSelf, args.obj, CallSchema.type,
                                args.nsid, CallSchema).exc
        /\ (args.type = "output" /\ args.obj.t # "list")
               => returned.exc = "ValidationError"
        /\ (/\ args.type = "output"
            /\ args.obj.t = "list"
            /\ \E i \in DOMAIN args.obj.v : args.obj.v[i].t # "str")
               => returned.exc = "ValidationError"
        /\ (/\ args.type = "message"
            /\ TypeName(InnerType(args.obj)) = "#foo"
            /\ \E k \in (DOMAIN args.obj.v) \ {"y"} : args.obj.v[k] = PyNone)
               => returned.exc = "ValidationError"

\* the blob has ref, mimeType and size, its size is within the maxSize of
\* the schema and its MIME type matches the accept list of the schema
BlobFits(schema, blob) ==
    /\ {"ref", "mimeType", "size"} \subseteq DOMAIN blob.v
    /\ "maxSize" \in DOMAIN schema => blob.v["size"].v <= schema.maxSize
    /\ validate_mime_type(blob.v["mimeType"].v, Get(schema, "accept", <<>>))

\* C24: a dict under a blob property validates when it has ref, mimeType
\* and size, its size is at most the declared maxSize and its mimeType
\* matches the accept list (any type for */*, for an empty and for an
\* absent list; every subtype for type/*); any other dict fails with
\* ValidationError.
C24_BlobChecked ==
    (Strict /\ args.nsid = "io.example.blob") =>
        returned.exc = IF BlobFits(CallPropSchema, CallVal) THEN "none"
                       ELSE "ValidationError"

\* C25: a string under a property whose format is none of the known
\* format names fails with ValidationError, whatever the string; under a
\* known format a string fails exactly when it does not conform to it.
C25_UnknownFormatFails ==
    (Strict /\ args.nsid = "io.example.formats") =>
        IF CallPropSchema.format \in UnknownFormats
        THEN returned.exc = "ValidationError"
        ELSE returned.exc = "none" <=>
                 /\ CallVal.v # <<>>
                 /\ CallProp \in Conforming[CallVal.v[1]]

\* the value is the constant: same Python type, same content
SameValue(a, b) == a.t = b.t /\ a = b

\* C28: a value under a property that declares a const fails with
\* ValidationError when it is not that constant, whatever the constant
\* (True or False, 1 or 0, 'x' or ''), and a value under a property that
\* declares an enum fails when it is none of the listed values; the
\* failure does not depend on the value having the declared type.
C28_ConstEnumEnforced ==
    (Strict /\ args.nsid = "io.example.consts") =>
        /\ ("const" \in DOMAIN CallPropSchema
            /\ ~SameValue(CallVal, CallPropSchema.const))
               => returned.exc = "ValidationError"
        /\ ("enum" \in DOMAIN CallPropSchema
            /\ \A i \in DOMAIN CallPropSchema.enum :
                   ~SameValue(CallVal, CallPropSchema.enum[i]))
               => returned.exc = "ValidationError"

\* C29: an integer under a property with minimum m and/or maximum M
\* validates exactly when it is at least every declared m and at most
\* every declared M, for positive, zero and negative bounds.
C29_RangeInclusive ==
    (Strict /\ args.nsid = "io.example.ranges") =>
        (returned.exc = "none" <=>
            /\ "minimum" \in DOMAIN CallPropSchema
                   => CallPropSchema.minimum <= CallVal.v
            /\ "maximum" \in DOMAIN CallPropSchema
                   => CallVal.v <= CallPropSchema.maximum)

----------------------------------------------------------------------------
(* A call from Client.call to the server's endpoint: the parameters on     *)
(* their way through the query string, and the input body                  *)

\* a query with a parameter of every kind: string, boolean, integer, and
\* arrays of strings and of integers
ParamTypesDef ==
    [type |-> "query",
     parameters |->
         [type |-> "params",
          properties |->
              << <<"s", [type |-> "string"]>>,
                 <<"b", [type |-> "boolean"]>>,
                 <<"i", [type |-> "integer"]>>,
                 <<"strs", [type |-> "array",
                            items |-> [type |-> "string"]]>>,
                 <<"nums", [type |-> "array",
                            items |-> [type |-> "integer"]]>> >>]]

\* Base.defs of the client and of the server of the call
WireDefs ==
    ("io.example.procedure" :> ProcedureDef) @@
    ("io.example.array" :> ArrayDef) @@
    ("io.example.paramTypes" :> ParamTypesDef)

\* the Base part of the client, and of the server it calls
WireClient ==
    [defs |-> WireDefs, validate |-> client.validate,
     truncate |-> client.truncate]
WireServer ==
    [defs |-> WireDefs, validate |-> server.validate,
     truncate |-> server.truncate]

\* the order of the keyword arguments in the model's calls
ParamOrder == <<"x", "z", "foo", "s", "b", "i", "strs", "nums">>

\* str(val) as urlencode writes a value or an item of a list
PyStrOf(val) ==
    CASE val.t = "bool" -> IF val.v THEN "True" ELSE "False"
      [] val.t = "int" -> IntToStr(val.v)
      [] val.t = "NoneType" -> "None"
      [] OTHER -> IF val.v = <<>> THEN "" ELSE val.v[1]

\* the (name, text) pairs of one parameter in the query string: true or
\* false for a boolean, one pair for every item of a list (doseq)
ParamPairs(name, val) ==
    IF val.t = "bool" THEN << <<name, IF val.v THEN "true" ELSE "false">> >>
    ELSE IF val.t = "list"
    THEN [k \in DOMAIN val.v |-> <<name, PyStrOf(val.v[k])>>]
    ELSE << <<name, PyStrOf(val)>> >>

RECURSIVE EncodeFrom(_, _)
EncodeFrom(params, k) ==
    IF k > Len(ParamOrder) THEN <<>>
    ELSE (IF ParamOrder[k] \in DOMAIN params
          THEN ParamPairs(ParamOrder[k], params[ParamOrder[k]]) ELSE <<>>)
         \o EncodeFrom(params, k + 1)

\* Base.encode_params(params): the query string, as the (name, value)
\* pairs that the server reads from it
encode_params(params) == EncodeFrom(params, 1)

\* Client.call, "strip null params"
StripNone(params) ==
    [k \in {n \in DOMAIN params : params[n] # PyNone} |-> params[k]]

\* Client.call(nsid, input, **params) of a query or procedure, up to the
\* HTTP request: the request it sends, or what it raises before
Client_request(self, nsid, input, params) ==
    LET stripped == StripNone(params)
        p == validate(self, nsid, "parameters", PyDict(stripped))
        def == _get_def(self, nsid)
        is_json == Truthy(input) /\ input.t = "dict"
    IN  IF p.exc # "none" THEN Raise(p.exc, PyNone)
        ELSE IF def.exc # "none" THEN Raise(def.exc, PyNone)
        ELSE Return([state |-> "sent", nsid |-> nsid,
                     method |-> IF def.val.type = "query" THEN "GET"
                                ELSE "POST",
                     args |-> encode_params(p.val.v),
                     json |-> IF is_json THEN input ELSE PyNone,
                     data |-> IF Truthy(input) /\ ~is_json THEN input
                              ELSE PyNone])

\* keyword parameters of the calls: every kind of value, alone and
\* together, valid and not
WireParams ==
    {<<>>,
     [x |-> PyStr(<<"y">>)],
     [x |-> PyStr(<<"y">>), z |-> PyBool(TRUE)],
     [z |-> PyBool(FALSE)],
     [x |-> PyInt(3)],
     [x |-> PyNone],
     [foo |-> PyList(<<PyStr(<<"a">>), PyStr(<<"b">>)>>)],
     [foo |-> PyList(<<PyStr(<<"a">>)>>)],
     [foo |-> PyList(<<>>)],
     [s |-> PyStr(<<"3">>)],
     [s |-> PyStr(<<"true">>)],
     [b |-> PyBool(TRUE), i |-> PyInt(-2)],
     [i |-> PyInt(0)],
     [i |-> PyInt(7), s |-> PyStr(<<"a">>)],
     [i |-> PyStr(<<"7">>)],
     [strs |-> PyList(<<PyStr(<<"1">>), PyStr(<<"a">>)>>)],
     [nums |-> PyList(<<PyInt(1), PyInt(2)>>)],
     [nums |-> PyList(<<PyInt(5)>>)],
     [nums |-> PyList(<<PyStr(<<"a">>)>>)]}

\* input bodies: none, valid and invalid for io.example.procedure
WireInputs ==
    {PyNone, EmptyDict,
     PyDict([foo |-> PyStr(<<"x">>)]),
     PyDict([foo |-> PyStr(<<"x">>), bar |-> PyInt(3)]),
     PyDict([foo |-> PyInt(2)]),
     PyDict([bar |-> PyInt(3)])}

\* a client and the server it talks to, and the call the application is
\* about to make
WireInit ==
    /\ client \in [validate : BOOLEAN, truncate : {FALSE},
                   has_callback : {FALSE}]
    /\ session = EmptyDict
    /\ ClientFresh
    /\ server = [validate |-> TRUE, truncate |-> FALSE]
    /\ ServerFresh
    /\ FlaskFresh
    /\ lexicons = <<>>
    /\ base = NoBase
    /\ args \in [nsid : DOMAIN WireDefs, input : WireInputs,
                 params : WireParams]
    /\ obj = PyNone
    /\ returned = NoResult

\* Client.call: the request goes out, or the call raises
Send ==
    /\ args # NoArgs
    /\ request = NoRequest
    /\ returned = NoResult
    /\ LET r == Client_request(WireClient, args.nsid, args.input,
                               args.params)
       IN  IF r.exc # "none"
           THEN returned' = r /\ UNCHANGED request
           ELSE request' = r.val /\ UNCHANGED returned
    /\ UNCHANGED <<subscribers, conns, ws, iter, loop, response>>
    /\ UNCHANGED <<lexicons, base, args, obj>>
    /\ UNCHANGED <<serverVars, clientVars>>

\* XrpcEndpoint.dispatch_request: the parameters the endpoint decodes from
\* the request and hands to Server.call
Receive_request ==
    /\ request # NoRequest
    /\ call = NoCall
    /\ LET d == decode_params(WireServer, request.nsid, request.args)
       IN  call' = IF d.exc # "none"
                   THEN [pc |-> "failed", nsid |-> request.nsid,
                         exc |-> d.exc]
                   ELSE [pc |-> "received", nsid |-> request.nsid,
                         params |-> d.val]
    /\ UNCHANGED <<server, _methods, first_handler, register_exc, invoked,
                   result, gen>>
    /\ UNCHANGED <<clientVars, restVars>>

WireStep == Send \/ Receive_request

WireSpec == WireInit /\ [][WireStep]_vars

\* the input of the call does not validate against the input schema of
\* the method
InvalidInput ==
    validate(WireClient, args.nsid, "input", args.input).exc
        = "ValidationError"

\* C26: when the input of a query or procedure does not validate, no
\* request is ever sent, and once the parameters are found valid the call
\* has raised ValidationError.
C26_InputValidatedBeforeSend ==
    (client.validate /\ InvalidInput) =>
        /\ request = NoRequest
        /\ returned # NoResult => returned.exc = "ValidationError"

\* C30: when the parameters of the call validated and went out, the
\* endpoint decodes from the request the parameters the caller passed:
\* the same names with the same values of the same types.
C30_ParamsRoundTrip ==
    (client.validate /\ call # NoCall) =>
        /\ call.pc = "received"
        /\ call.params = StripNone(args.params)

===========================================================================
